---- MODULE Spec2Model ----
(***************************************************************************)
(* Model of the HR payroll service: the salary calculator                  *)
(* (utils/salaryCalculator.ts), and the employee, attendance and salary    *)
(* routes that feed it.                                                    *)
(*                                                                         *)
(* JavaScript numbers are modelled as exact rationals [n, d] in lowest     *)
(* terms with d > 0, so that 0.05, 0.12, x / workingDays and x / 12 are    *)
(* computed rather than approximated.                                      *)
(***************************************************************************)
EXTENDS Integers, Sequences, FiniteSets, TLC

VARIABLES
    TAX_SLABS,      \* the module-level slab table of salaryCalculator.ts
    taxQueue,       \* the arguments of the calculateAnnualTax calls still to be made
    taxLog,         \* the calculateAnnualTax calls made: argument and result
    salQueue,       \* the params of the calculateMonthlySalary calls still to be made
    salLog,         \* the calculateMonthlySalary calls made: params and breakdown
    userTable,      \* the User table: a sequence indexed by the SERIAL id
    employeeTable,  \* the Employee table: a sequence indexed by the SERIAL id
    attendanceTable, \* the Attendance table: a set of rows
    nextAttendanceId, \* the next value of the Attendance id sequence
    payrollTable,   \* the Payroll table: a set of rows
    nextPayrollId,  \* the next value of the Payroll id sequence
    requests,       \* the requests being handled concurrently: each one's position
    response        \* the HTTP response being sent, or NoResponse

calcVars == <<taxQueue, taxLog, salQueue, salLog>>

userVars == <<userTable>>

dbVars == <<employeeTable, attendanceTable, nextAttendanceId>>

payrollVars == <<payrollTable, nextPayrollId>>

vars == <<TAX_SLABS, calcVars, userVars, dbVars, payrollVars, requests, response>>

----------------------------------------------------------------------------
(* Numbers: IEEE doubles as exact rationals, plus Infinity, -Infinity, NaN *)

Abs(i) == IF i < 0 THEN -i ELSE i

Sign(i) == IF i > 0 THEN 1 ELSE IF i < 0 THEN -1 ELSE 0

RECURSIVE Gcd(_, _)
Gcd(a, b) == IF b = 0 THEN a ELSE Gcd(b, a % b)

\* the number n/d, d # 0, in lowest terms with a positive denominator
Rat(n, d) ==
    LET g == Gcd(Abs(n), Abs(d))
        s == IF d < 0 THEN -1 ELSE 1
    IN  [n |-> (s * n) \div g, d |-> (s * d) \div g]

Num(i) == [n |-> i, d |-> 1]

Zero == Num(0)

\* the non-finite doubles have d = 0 (the sign of a zero is not modelled)
NaN == [n |-> 0, d |-> 0]

Infinity == [n |-> 1, d |-> 0]

NegInfinity == [n |-> -1, d |-> 0]

IsFinite(a) == a.d # 0

Neg(a) == [n |-> -a.n, d |-> a.d]

Add(a, b) ==
    IF IsFinite(a) /\ IsFinite(b) THEN Rat(a.n * b.d + b.n * a.d, a.d * b.d)
    ELSE IF a = NaN \/ b = NaN THEN NaN
    ELSE IF IsFinite(a) THEN b
    ELSE IF IsFinite(b) THEN a
    ELSE IF a = b THEN a ELSE NaN

Sub(a, b) == Add(a, Neg(b))

Mul(a, b) ==
    IF IsFinite(a) /\ IsFinite(b) THEN Rat(a.n * b.n, a.d * b.d)
    ELSE IF a = NaN \/ b = NaN \/ a.n = 0 \/ b.n = 0 THEN NaN
    ELSE [n |-> Sign(a.n) * Sign(b.n), d |-> 0]

Div(a, b) ==
    IF a = NaN \/ b = NaN THEN NaN
    ELSE IF IsFinite(a) /\ IsFinite(b)
         THEN IF b.n # 0 THEN Rat(a.n * b.d, a.d * b.n)
              ELSE [n |-> Sign(a.n), d |-> 0]
    ELSE IF IsFinite(a) THEN Zero
    ELSE IF IsFinite(b) THEN [n |-> a.n * (IF b.n < 0 THEN -1 ELSE 1), d |-> 0]
    ELSE NaN

\* a < b and a <= b; every comparison with NaN is false
Lt(a, b) ==
    /\ a # NaN
    /\ b # NaN
    /\ IF IsFinite(a) \/ IsFinite(b) THEN a.n * b.d < b.n * a.d ELSE a.n < b.n

Le(a, b) == a # NaN /\ b # NaN /\ ~Lt(b, a)

Gt(a, b) == Lt(b, a)

Ge(a, b) == Le(b, a)

MathMin(a, b) == IF a = NaN \/ b = NaN THEN NaN ELSE IF Lt(b, a) THEN b ELSE a

MathMax(a, b) == IF a = NaN \/ b = NaN THEN NaN ELSE IF Lt(a, b) THEN b ELSE a

\* `null`, as in the upto of the last tax slab, and `undefined`
Null == [null |-> TRUE]

Undefined == [undefined |-> TRUE]

----------------------------------------------------------------------------
(* salaryCalculator.ts: the tax slabs and calculateAnnualTax *)

DefaultTaxSlabs ==
    << [upto |-> Num(250000),  rate |-> Rat(0, 100)],
       [upto |-> Num(500000),  rate |-> Rat(5, 100)],
       [upto |-> Num(1000000), rate |-> Rat(20, 100)],
       [upto |-> Null,         rate |-> Rat(30, 100)] >>

\* SlabWalk without `lastUpper = slab.upto`
RECURSIVE SlabWalkStaleUpper(_, _, _, _, _)
SlabWalkStaleUpper(slabs, i, remainingIncome, tax, lastUpper) ==
    IF i > Len(slabs) THEN tax
    ELSE LET slab == slabs[i] IN
         IF slab.upto # Null
         THEN LET taxableIncome ==
                      MathMax(Zero, MathMin(remainingIncome, Sub(slab.upto, lastUpper)))
                  tax2 == Add(tax, Mul(taxableIncome, slab.rate))
                  rem2 == Sub(remainingIncome, taxableIncome)
              IN  IF Le(rem2, Zero) THEN tax2
                  ELSE SlabWalkStaleUpper(slabs, i + 1, rem2, tax2, lastUpper)
         ELSE Add(tax, Mul(remainingIncome, slab.rate))

\* SlabWalk without `remainingIncome -= taxableIncome`
RECURSIVE SlabWalkNoDecrement(_, _, _, _, _)
SlabWalkNoDecrement(slabs, i, remainingIncome, tax, lastUpper) ==
    IF i > Len(slabs) THEN tax
    ELSE LET slab == slabs[i] IN
         IF slab.upto # Null
         THEN LET taxableIncome ==
                      MathMax(Zero, MathMin(remainingIncome, Sub(slab.upto, lastUpper)))
                  tax2 == Add(tax, Mul(taxableIncome, slab.rate))
              IN  IF Le(remainingIncome, Zero) THEN tax2
                  ELSE SlabWalkNoDecrement(slabs, i + 1, remainingIncome, tax2, slab.upto)
         ELSE Add(tax, Mul(remainingIncome, slab.rate))

\* SlabWalk taxing the whole income at the rate of the slab it falls in
RECURSIVE SlabWalkFlatRate(_, _, _, _, _)
SlabWalkFlatRate(slabs, i, remainingIncome, tax, lastUpper) ==
    IF i > Len(slabs) THEN tax
    ELSE LET slab == slabs[i] IN
         IF slab.upto # Null
         THEN IF Le(remainingIncome, slab.upto)
              THEN Mul(remainingIncome, slab.rate)
              ELSE SlabWalkFlatRate(slabs, i + 1, remainingIncome, tax, slab.upto)
         ELSE Mul(remainingIncome, slab.rate)

\* one iteration of `for (const slab of TAX_SLABS)`; i is the index of slab
RECURSIVE SlabWalk(_, _, _, _, _)
SlabWalk(slabs, i, remainingIncome, tax, lastUpper) ==
    IF i > Len(slabs) THEN tax
    ELSE LET slab == slabs[i] IN
         IF slab.upto # Null
         THEN LET taxableIncome ==
                      MathMax(Zero, MathMin(remainingIncome, Sub(slab.upto, lastUpper)))
                  tax2 == Add(tax, Mul(taxableIncome, slab.rate))
                  rem2 == Sub(remainingIncome, taxableIncome)
              IN  IF Le(rem2, Zero) THEN tax2
                  ELSE SlabWalk(slabs, i + 1, rem2, tax2, slab.upto)
         ELSE Add(tax, Mul(remainingIncome, slab.rate))

calculateAnnualTax(slabs, annualIncome) ==
    SlabWalk(slabs, 1, annualIncome, Zero, Zero)

----------------------------------------------------------------------------
(* salaryCalculator.ts: calculateMonthlySalary *)

\* `otherDeductions = 0` in the destructuring of params
OrDefault(v, dflt) == IF v = Undefined THEN dflt ELSE v

GrossMonthly(basic, hra, allowances) == Add(Add(basic, hra), allowances)

ProvidentFund(basic) == Mul(basic, Rat(12, 100))

\* the attendance loop with `>` for `>=`
RECURSIVE CountDaysStrict(_, _, _, _)
CountDaysStrict(attendances, i, fullDays, halfDays) ==
    IF i > Len(attendances) THEN [fullDays |-> fullDays, halfDays |-> halfDays]
    ELSE IF Gt(attendances[i].hoursWorked, Num(8))
         THEN CountDaysStrict(attendances, i + 1, fullDays + 1, halfDays)
    ELSE IF Gt(attendances[i].hoursWorked, Zero)
         THEN CountDaysStrict(attendances, i + 1, fullDays, halfDays + 1)
    ELSE CountDaysStrict(attendances, i + 1, fullDays, halfDays)

\* the attendance loop with a bare `else` for `else if (hoursWorked > 0)`
RECURSIVE CountDaysBareElse(_, _, _, _)
CountDaysBareElse(attendances, i, fullDays, halfDays) ==
    IF i > Len(attendances) THEN [fullDays |-> fullDays, halfDays |-> halfDays]
    ELSE IF Ge(attendances[i].hoursWorked, Num(8))
         THEN CountDaysBareElse(attendances, i + 1, fullDays + 1, halfDays)
    ELSE CountDaysBareElse(attendances, i + 1, fullDays, halfDays + 1)

\* `for (const attendance of attendances)`; i is the index of attendance
RECURSIVE CountDays(_, _, _, _)
CountDays(attendances, i, fullDays, halfDays) ==
    IF i > Len(attendances) THEN [fullDays |-> fullDays, halfDays |-> halfDays]
    ELSE IF Ge(attendances[i].hoursWorked, Num(8))
         THEN CountDays(attendances, i + 1, fullDays + 1, halfDays)
    ELSE IF Gt(attendances[i].hoursWorked, Zero)
         THEN CountDays(attendances, i + 1, fullDays, halfDays + 1)
    ELSE CountDays(attendances, i + 1, fullDays, halfDays)

DailyWage(grossMonthly, workingDaysInMonth) == Div(grossMonthly, workingDaysInMonth)

TotalSalary(fullDays, halfDays, dailyWage) ==
    LET fullDaySalary == dailyWage
        halfDaySalary == Div(dailyWage, Num(2))
    IN  Add(Mul(Num(fullDays), fullDaySalary), Mul(Num(halfDays), halfDaySalary))

MonthlyTax(slabs, grossMonthly) ==
    LET annualIncome == Mul(grossMonthly, Num(12))
        annualTax == calculateAnnualTax(slabs, annualIncome)
    IN  Div(annualTax, Num(12))

\* netSalary clamped at zero
NetSalaryFloored(totalSalary, monthlyTax, pf, otherDeductions) ==
    MathMax(Zero, Sub(Sub(Sub(totalSalary, monthlyTax), pf), otherDeductions))

NetSalary(totalSalary, monthlyTax, pf, otherDeductions) ==
    Sub(Sub(Sub(totalSalary, monthlyTax), pf), otherDeductions)

\* calculateMonthlySalary with the tax annualised from totalSalary
calculateMonthlySalaryTaxOnPaid(slabs, params) ==
    LET otherDeductions == OrDefault(params.otherDeductions, Zero)
        grossMonthly == GrossMonthly(params.basic, params.hra, params.allowances)
        pf == ProvidentFund(params.basic)
        days == CountDays(params.attendances, 1, 0, 0)
        dailyWage == DailyWage(grossMonthly, params.workingDaysInMonth)
        totalSalary == TotalSalary(days.fullDays, days.halfDays, dailyWage)
        monthlyTax == MonthlyTax(slabs, totalSalary)
    IN  [grossMonthly |-> grossMonthly, fullDays |-> days.fullDays,
         halfDays |-> days.halfDays, dailyWage |-> dailyWage,
         totalSalary |-> totalSalary, tax |-> monthlyTax, pf |-> pf,
         otherDeductions |-> otherDeductions,
         netSalary |-> NetSalary(totalSalary, monthlyTax, pf, otherDeductions)]

\* calculateMonthlySalary with the provident fund taken from the gross
calculateMonthlySalaryPfOnGross(slabs, params) ==
    LET otherDeductions == OrDefault(params.otherDeductions, Zero)
        grossMonthly == GrossMonthly(params.basic, params.hra, params.allowances)
        pf == ProvidentFund(grossMonthly)
        days == CountDays(params.attendances, 1, 0, 0)
        dailyWage == DailyWage(grossMonthly, params.workingDaysInMonth)
        totalSalary == TotalSalary(days.fullDays, days.halfDays, dailyWage)
        monthlyTax == MonthlyTax(slabs, grossMonthly)
    IN  [grossMonthly |-> grossMonthly, fullDays |-> days.fullDays,
         halfDays |-> days.halfDays, dailyWage |-> dailyWage,
         totalSalary |-> totalSalary, tax |-> monthlyTax, pf |-> pf,
         otherDeductions |-> otherDeductions,
         netSalary |-> NetSalary(totalSalary, monthlyTax, pf, otherDeductions)]

\* calculateMonthlySalary rejecting what the interface does not rule out
calculateMonthlySalaryValidating(slabs, params) ==
    IF \/ ~Gt(params.workingDaysInMonth, Zero)
       \/ Lt(params.basic, Zero) \/ Lt(params.hra, Zero) \/ Lt(params.allowances, Zero)
       \/ Lt(OrDefault(params.otherDeductions, Zero), Zero)
    THEN [error |-> "Invalid salary parameters"]
    ELSE calculateMonthlySalaryPfOnGross(slabs, params)

calculateMonthlySalary(slabs, params) ==
    LET otherDeductions == OrDefault(params.otherDeductions, Zero)
        grossMonthly == GrossMonthly(params.basic, params.hra, params.allowances)
        pf == ProvidentFund(params.basic)
        days == CountDays(params.attendances, 1, 0, 0)
        dailyWage == DailyWage(grossMonthly, params.workingDaysInMonth)
        totalSalary == TotalSalary(days.fullDays, days.halfDays, dailyWage)
        monthlyTax == MonthlyTax(slabs, grossMonthly)
    IN  [grossMonthly |-> grossMonthly, fullDays |-> days.fullDays,
         halfDays |-> days.halfDays, dailyWage |-> dailyWage,
         totalSalary |-> totalSalary, tax |-> monthlyTax, pf |-> pf,
         otherDeductions |-> otherDeductions,
         netSalary |-> NetSalary(totalSalary, monthlyTax, pf, otherDeductions)]

----------------------------------------------------------------------------
(* Calls of the calculator on sampled arguments *)

MaxDelta == 2

MaxLen == 3

MaxPairLen == 1

NoResponse == [none |-> TRUE]

MaxRequests == 2

\* a slot with no request in it
Idle == [pc |-> "idle"]

\* incomes at, just below and just above each slab boundary, in steps of 1/2
IncomeAnchors == {0, 250000, 500000, 780000, 1000000, 1500000}

AnnualIncomes ==
    {x \in {Add(Num(u), Rat(j, 2)) : u \in IncomeAnchors, j \in -MaxDelta..MaxDelta} :
        Le(Zero, x)}

HourSamples == {Zero, Rat(7999, 1000), Num(8)}

HourLists(maxLen) == UNION {[1..k -> HourSamples] : k \in 0..maxLen}

\* 20 days of 8 hours and 2 days of 4 hours
ScenarioHours == [i \in 1..22 |-> IF i <= 20 THEN Num(8) ELSE Num(4)]

AttendancesOf(hours) ==
    [i \in DOMAIN hours |-> [date |-> i, hoursWorked |-> hours[i]]]

CompSamples == {<<50000, 10000, 5000>>, <<60000, 5000, 0>>, <<20000, 0, 0>>}

\* 0 working days is what the calculator is not guarded against
WorkingDaysSamples == {0, 1, 22}

PairWorkingDaysSamples == {1, 22}

OtherDeductionsSamples == {Undefined, Num(1000)}

SalaryParams(hourLists, workingDays) ==
    {[basic |-> Num(c[1]), hra |-> Num(c[2]), allowances |-> Num(c[3]),
      workingDaysInMonth |-> Num(w), attendances |-> AttendancesOf(hs),
      otherDeductions |-> o] :
        c \in CompSamples, w \in workingDays,
        hs \in hourLists, o \in OtherDeductionsSamples}

Reverse(s) == [i \in DOMAIN s |-> s[Len(s) + 1 - i]]

\* the next queued call of calculateAnnualTax
CallAnnualTax ==
    /\ taxQueue # <<>>
    /\ taxLog' = Append(taxLog,
                        [annualIncome |-> Head(taxQueue),
                         tax |-> calculateAnnualTax(TAX_SLABS, Head(taxQueue))])
    /\ taxQueue' = Tail(taxQueue)
    /\ UNCHANGED <<TAX_SLABS, salQueue, salLog, userVars, dbVars, payrollVars, requests, response>>

\* a call that reverses the slab table in place while walking it
CallMonthlySalaryReversing ==
    /\ salQueue # <<>>
    /\ salLog' = Append(salLog,
                        [params |-> Head(salQueue),
                         breakdown |-> calculateMonthlySalary(TAX_SLABS, Head(salQueue))])
    /\ salQueue' = Tail(salQueue)
    /\ TAX_SLABS' = Reverse(TAX_SLABS)
    /\ UNCHANGED <<taxQueue, taxLog, userVars, dbVars, payrollVars, requests, response>>

\* the next queued call of calculateMonthlySalary
CallMonthlySalary ==
    /\ salQueue # <<>>
    /\ salLog' = Append(salLog,
                        [params |-> Head(salQueue),
                         breakdown |-> calculateMonthlySalary(TAX_SLABS, Head(salQueue))])
    /\ salQueue' = Tail(salQueue)
    /\ UNCHANGED <<TAX_SLABS, taxQueue, taxLog, userVars, dbVars, payrollVars, requests, response>>

\* the state after the module is loaded, before any call
Loaded ==
    /\ TAX_SLABS = DefaultTaxSlabs
    /\ taxLog = <<>>
    /\ salLog = <<>>
    /\ userTable = <<>>
    /\ employeeTable = <<>>
    /\ attendanceTable = {}
    /\ nextAttendanceId = 1
    /\ payrollTable = {}
    /\ nextPayrollId = 1
    /\ requests = [r \in 1..MaxRequests |-> Idle]
    /\ response = NoResponse

\* two calls of calculateAnnualTax, on any two sampled incomes
InitTax ==
    /\ Loaded
    /\ taxQueue \in [1..2 -> AnnualIncomes]
    /\ salQueue = <<>>

SpecTax == InitTax /\ [][CallAnnualTax]_vars

\* one call of calculateMonthlySalary
InitSalary ==
    /\ Loaded
    /\ taxQueue = <<>>
    /\ salQueue \in {<<p>> : p \in SalaryParams(HourLists(MaxLen) \cup {ScenarioHours},
                                           WorkingDaysSamples)}

SpecSalary == InitSalary /\ [][CallMonthlySalary]_vars

\* calls p, q and p, q, p of calculateMonthlySalary, on any two sampled params
InitSalaryCalls ==
    /\ Loaded
    /\ taxQueue = <<>>
    /\ salQueue \in {IF again THEN <<p, q, p>> ELSE <<p, q>> :
                        p \in SalaryParams(HourLists(MaxPairLen), PairWorkingDaysSamples),
                        q \in SalaryParams(HourLists(MaxPairLen), PairWorkingDaysSamples),
                        again \in BOOLEAN}

SpecSalaryCalls == InitSalaryCalls /\ [][CallMonthlySalary]_vars

\* pay components, working days and deductions that SalaryCalculationParams
\* admits (each is a `number`) and no caller of the routes would send
AnyCompSamples == {<<50000, 10000, 5000>>, <<-50000, 10000, 5000>>,
                   <<50000, -60000, 0>>, <<0, 0, 0>>}

AnyWorkingDaysSamples == {-1, 0, 22}

AnyOtherDeductionsSamples == {Undefined, Num(-1000), Num(1000)}

AnySalaryParams ==
    {[basic |-> Num(c[1]), hra |-> Num(c[2]), allowances |-> Num(c[3]),
      workingDaysInMonth |-> Num(w), attendances |-> AttendancesOf(hs),
      otherDeductions |-> o] :
        c \in AnyCompSamples, w \in AnyWorkingDaysSamples,
        hs \in HourLists(MaxPairLen + 1), o \in AnyOtherDeductionsSamples}

\* one call of calculateMonthlySalary on params of any sign
InitSalaryAnyInput ==
    /\ Loaded
    /\ taxQueue = <<>>
    /\ salQueue \in {<<p>> : p \in AnySalaryParams}

SpecSalaryAnyInput == InitSalaryAnyInput /\ [][CallMonthlySalary]_vars

----------------------------------------------------------------------------
(* The REST service: requests are handled one at a time, each handler as one
   step; the response stays in `response` until it is sent *)

MaxEmployees == 1

MaxAttendance == 2

Reply(status, message, data) == [status |-> status, message |-> message, data |-> data]

Pass == [ok |-> TRUE]

Fail(reply) == [ok |-> FALSE, reply |-> reply]

(* middleware/auth.ts *)

NoUser == [nouser |-> TRUE]

\* req.user after authenticate: the User row with its linked employee id, if any
UserSamples ==
    {NoUser,
     [roles |-> "ADMIN", employee |-> Null],
     [roles |-> "MANAGER", employee |-> Null],
     [roles |-> "EMPLOYEE", employee |-> [id |-> 1]],
     [roles |-> "EMPLOYEE", employee |-> Null]}

authenticate(user) ==
    IF user = NoUser THEN Fail(Reply(401, "Access denied. No token provided.", Null))
    ELSE Pass

\* authorize without the role check
authorizeAnyRole(user, roles) ==
    IF user = NoUser THEN Fail(Reply(401, "Authentication required.", Null))
    ELSE Pass

authorize(user, roles) ==
    IF user = NoUser THEN Fail(Reply(401, "Authentication required.", Null))
    ELSE IF user.roles \notin roles THEN Fail(Reply(403, "Insufficient permissions.", Null))
    ELSE Pass

\* the middleware chain `authenticate, authorize('ADMIN', 'MANAGER')`
AdminOnly(user) ==
    IF ~authenticate(user).ok THEN authenticate(user)
    ELSE authorize(user, {"ADMIN", "MANAGER"})

\* `req.user!.employeeId`: the User row has no such property
UserEmployeeId(user) == Undefined

\* `req.user.employee?.id === employeeId`
IsOwnEmployee(user, employeeId) ==
    user.employee # Null /\ user.employee.id = employeeId

\* canAccessSalary letting every EMPLOYEE through
canAccessSalaryAnyEmployee(user, employeeId) ==
    IF user = NoUser THEN Fail(Reply(401, "Authentication required.", Null))
    ELSE Pass

canAccessEmployee(user, employeeId) ==
    IF user = NoUser THEN Fail(Reply(401, "Authentication required.", Null))
    ELSE IF user.roles = "ADMIN" \/ user.roles = "MANAGER" THEN Pass
    ELSE IF user.roles = "EMPLOYEE" /\ IsOwnEmployee(user, employeeId) THEN Pass
    ELSE Fail(Reply(403, "Access denied. You can only access your own data.", Null))

canAccessSalary(user, employeeId) ==
    IF user = NoUser THEN Fail(Reply(401, "Authentication required.", Null))
    ELSE IF user.roles = "ADMIN" \/ user.roles = "MANAGER" THEN Pass
    ELSE IF user.roles = "EMPLOYEE" /\ IsOwnEmployee(user, employeeId) THEN Pass
    ELSE Fail(Reply(403, "Access denied. You can only access your own salary data.", Null))

\* the middleware chain `authenticate, canAccessEmployee`
EmployeeAccess(user, employeeId) ==
    IF ~authenticate(user).ok THEN authenticate(user)
    ELSE canAccessEmployee(user, employeeId)

\* the middleware chain `authenticate, canAccessSalary`
SalaryAccess(user, employeeId) ==
    IF ~authenticate(user).ok THEN authenticate(user)
    ELSE canAccessSalary(user, employeeId)

(* routes/auth.ts: POST /api/auth/signup *)

MaxUsers == 3

\* the values of the Role enum
Role == {"ADMIN", "MANAGER", "EMPLOYEE"}

\* request bodies of POST /api/auth/signup; "HR" is no value of Role and
\* "12345" is shorter than a password may be
SignupBodies ==
    {[email |-> e, password |-> "secret1", role |-> r, fullName |-> "Ann Lee"] :
        e \in {"a@hr.test", "b@hr.test", "c@hr.test"}, r \in Role \cup {"HR"}}
    \cup
    {[email |-> "a@hr.test", password |-> "12345", role |-> "EMPLOYEE",
      fullName |-> "Ann Lee"]}

\* the first message of signupSchema
ValidateSignupBody(body) ==
    IF Len(body.password) < 6
    THEN [ok |-> FALSE,
          message |-> "\"password\" length must be at least 6 characters long"]
    ELSE IF body.role \notin Role
    THEN [ok |-> FALSE, message |-> "\"role\" must be one of [ADMIN, MANAGER, EMPLOYEE]"]
    ELSE Pass

\* bcrypt's hash of the password: not the password, and checked against it
hashPassword(password) == [bcrypt |-> password]

\* POST /api/auth/signup: no middleware; the role of the new user is the
\* role of the request body
Signup(body) ==
    /\ response = NoResponse
    /\ Len(userTable) < MaxUsers
    /\ IF ~ValidateSignupBody(body).ok
       THEN /\ response' = Reply(400, ValidateSignupBody(body).message, Null)
            /\ UNCHANGED userTable
       ELSE IF \E i \in DOMAIN userTable : userTable[i].email = body.email
       THEN /\ response' = Reply(400, "User with this email already exists", Null)
            /\ UNCHANGED userTable
       ELSE LET newUser == [id |-> Len(userTable) + 1, email |-> body.email,
                            password |-> hashPassword(body.password),
                            fullName |-> body.fullName, roles |-> body.role]
            IN  /\ userTable' = Append(userTable, newUser)
                /\ response' =
                       Reply(201, "Signup successful",
                             [user |-> [id |-> newUser.id, email |-> newUser.email,
                                        fullName |-> newUser.fullName,
                                        roles |-> newUser.roles],
                              token |-> [userId |-> newUser.id, roles |-> newUser.roles]])
    /\ UNCHANGED <<TAX_SLABS, calcVars, dbVars, payrollVars, requests>>

(* Dates: instants as [y, m, d, h], compared in time order *)

IsLeapYear(y) == (y % 4 = 0 /\ y % 100 # 0) \/ y % 400 = 0

DaysInMonth(y, m) ==
    IF m = 2 THEN (IF IsLeapYear(y) THEN 29 ELSE 28)
    ELSE IF m \in {4, 6, 9, 11} THEN 30 ELSE 31

Date(y, m, d, h) == [y |-> y, m |-> m, d |-> d, h |-> h]

DateLe(a, b) ==
    \/ a.y < b.y
    \/ a.y = b.y /\ a.m < b.m
    \/ a.y = b.y /\ a.m = b.m /\ a.d < b.d
    \/ a.y = b.y /\ a.m = b.m /\ a.d = b.d /\ a.h <= b.h

\* new Date(year, month - 1, 1) and new Date(year, month, 0)
MonthStart(year, month) == Date(year, month, 1, 0)

MonthEnd(year, month) == Date(year, month, DaysInMonth(year, month), 0)

(* salaryCalculator.ts: calculateEmployeeSalary *)

\* the rows of a findMany, here in id order
RECURSIVE RowsById(_)
RowsById(rows) ==
    IF rows = {} THEN <<>>
    ELSE LET first == CHOOSE r \in rows : \A q \in rows : r.id <= q.id
         IN  <<first>> \o RowsById(rows \ {first})

FindAttendances(table, employeeId, startDate, endDate) ==
    RowsById({a \in table : /\ a.employeeId = employeeId
                            /\ DateLe(startDate, a.date)
                            /\ DateLe(a.date, endDate)})

\* calculateEmployeeSalary without the isActive check
calculateEmployeeSalaryAnyStatus(slabs, empTable, attTable, employeeId, month, year, otherDeductions) ==
    IF employeeId \notin DOMAIN empTable
    THEN [ok |-> FALSE, message |-> "Employee not found"]
    ELSE LET employee == empTable[employeeId]
             found == FindAttendances(attTable, employeeId,
                                      MonthStart(year, month), MonthEnd(year, month))
             salaryParams ==
                 [basic |-> employee.basicSalary, hra |-> employee.hra,
                  allowances |-> employee.allowances,
                  workingDaysInMonth |-> employee.workingDays,
                  attendances |-> [i \in DOMAIN found |->
                                      [date |-> found[i].date,
                                       hoursWorked |-> found[i].hoursWorked]],
                  otherDeductions |-> OrDefault(otherDeductions, Zero)]
             breakdown == calculateMonthlySalary(slabs, salaryParams)
         IN  [ok |-> TRUE,
              value |-> [employeeId |-> employeeId, month |-> month, year |-> year,
                         grossSalary |-> breakdown.grossMonthly,
                         fullDays |-> breakdown.fullDays,
                         halfDays |-> breakdown.halfDays,
                         dailyWage |-> breakdown.dailyWage,
                         totalSalary |-> breakdown.totalSalary,
                         taxDeductions |-> breakdown.tax,
                         pfDeductions |-> breakdown.pf,
                         otherDeductions |-> breakdown.otherDeductions,
                         netSalary |-> breakdown.netSalary]]

\* calculateEmployeeSalary leaving out the records marked ABSENT or LEAVE
calculateEmployeeSalaryOfPresent(slabs, empTable, attTable, employeeId, month, year, otherDeductions) ==
    IF employeeId \notin DOMAIN empTable
    THEN [ok |-> FALSE, message |-> "Employee not found"]
    ELSE IF ~empTable[employeeId].isActive
    THEN [ok |-> FALSE, message |-> "Employee is not active"]
    ELSE LET employee == empTable[employeeId]
             found == FindAttendances({a \in attTable : a.status \notin {"ABSENT", "LEAVE"}},
                                      employeeId,
                                      MonthStart(year, month), MonthEnd(year, month))
             salaryParams ==
                 [basic |-> employee.basicSalary, hra |-> employee.hra,
                  allowances |-> employee.allowances,
                  workingDaysInMonth |-> employee.workingDays,
                  attendances |-> [i \in DOMAIN found |->
                                      [date |-> found[i].date,
                                       hoursWorked |-> found[i].hoursWorked]],
                  otherDeductions |-> OrDefault(otherDeductions, Zero)]
             breakdown == calculateMonthlySalary(slabs, salaryParams)
         IN  [ok |-> TRUE,
              value |-> [employeeId |-> employeeId, month |-> month, year |-> year,
                         grossSalary |-> breakdown.grossMonthly,
                         fullDays |-> breakdown.fullDays,
                         halfDays |-> breakdown.halfDays,
                         dailyWage |-> breakdown.dailyWage,
                         totalSalary |-> breakdown.totalSalary,
                         taxDeductions |-> breakdown.tax,
                         pfDeductions |-> breakdown.pf,
                         otherDeductions |-> breakdown.otherDeductions,
                         netSalary |-> breakdown.netSalary]]

calculateEmployeeSalary(slabs, empTable, attTable, employeeId, month, year, otherDeductions) ==
    IF employeeId \notin DOMAIN empTable
    THEN [ok |-> FALSE, message |-> "Employee not found"]
    ELSE IF ~empTable[employeeId].isActive
    THEN [ok |-> FALSE, message |-> "Employee is not active"]
    ELSE LET employee == empTable[employeeId]
             found == FindAttendances(attTable, employeeId,
                                      MonthStart(year, month), MonthEnd(year, month))
             salaryParams ==
                 [basic |-> employee.basicSalary, hra |-> employee.hra,
                  allowances |-> employee.allowances,
                  workingDaysInMonth |-> employee.workingDays,
                  attendances |-> [i \in DOMAIN found |->
                                      [date |-> found[i].date,
                                       hoursWorked |-> found[i].hoursWorked]],
                  otherDeductions |-> OrDefault(otherDeductions, Zero)]
             breakdown == calculateMonthlySalary(slabs, salaryParams)
         IN  [ok |-> TRUE,
              value |-> [employeeId |-> employeeId, month |-> month, year |-> year,
                         grossSalary |-> breakdown.grossMonthly,
                         fullDays |-> breakdown.fullDays,
                         halfDays |-> breakdown.halfDays,
                         dailyWage |-> breakdown.dailyWage,
                         totalSalary |-> breakdown.totalSalary,
                         taxDeductions |-> breakdown.tax,
                         pfDeductions |-> breakdown.pf,
                         otherDeductions |-> breakdown.otherDeductions,
                         netSalary |-> breakdown.netSalary]]

(* routes/employees.ts *)

EmailSamples == {"a@hr.test", "b@hr.test"}

EmployeeIdSamples == 1..(MaxEmployees + 1)

\* request bodies of POST /api/employees; workingDays may be left out
CreateEmployeeBodies ==
    {[email |-> e, basicSalary |-> Num(c[1]), hra |-> Num(c[2]), allowances |-> Num(c[3])] :
        e \in EmailSamples, c \in {<<50000, 10000, 5000>>, <<20000, 0, 0>>}}
    \cup
    {[email |-> "a@hr.test", basicSalary |-> Num(50000), hra |-> Num(10000),
      allowances |-> Num(5000), workingDays |-> w] :
        w \in {Zero, Num(1), Num(32), Rat(3, 2)}}

\* request bodies of PUT /api/employees/:id
UpdateEmployeeBodies ==
    {[workingDays |-> Zero], [workingDays |-> Num(1)], [workingDays |-> Num(22)],
     [workingDays |-> Num(32)], [workingDays |-> Rat(3, 2)],
     [isActive |-> TRUE], [isActive |-> FALSE], [email |-> "b@hr.test"],
     [basicSalary |-> Num(20000), hra |-> Zero, allowances |-> Zero]}

Has(body, field) == field \in DOMAIN body

\* the schemas without the rules of workingDays
ValidateEmployeeBodyAnyWorkingDays(body) ==
    IF Has(body, "basicSalary") /\ ~Gt(body.basicSalary, Zero)
    THEN [ok |-> FALSE, message |-> "\"basicSalary\" must be a positive number"]
    ELSE IF Has(body, "hra") /\ Lt(body.hra, Zero)
    THEN [ok |-> FALSE, message |-> "\"hra\" must be greater than or equal to 0"]
    ELSE IF Has(body, "allowances") /\ Lt(body.allowances, Zero)
    THEN [ok |-> FALSE, message |-> "\"allowances\" must be greater than or equal to 0"]
    ELSE Pass

\* the first message of createEmployeeSchema / updateEmployeeSchema, for the
\* fields the sampled bodies set
ValidateEmployeeBody(body) ==
    IF Has(body, "basicSalary") /\ ~Gt(body.basicSalary, Zero)
    THEN [ok |-> FALSE, message |-> "\"basicSalary\" must be a positive number"]
    ELSE IF Has(body, "hra") /\ Lt(body.hra, Zero)
    THEN [ok |-> FALSE, message |-> "\"hra\" must be greater than or equal to 0"]
    ELSE IF Has(body, "allowances") /\ Lt(body.allowances, Zero)
    THEN [ok |-> FALSE, message |-> "\"allowances\" must be greater than or equal to 0"]
    ELSE IF Has(body, "workingDays") /\ body.workingDays.d # 1
    THEN [ok |-> FALSE, message |-> "\"workingDays\" must be an integer"]
    ELSE IF Has(body, "workingDays") /\ Lt(body.workingDays, Num(1))
    THEN [ok |-> FALSE, message |-> "\"workingDays\" must be greater than or equal to 1"]
    ELSE IF Has(body, "workingDays") /\ Gt(body.workingDays, Num(31))
    THEN [ok |-> FALSE, message |-> "\"workingDays\" must be less than or equal to 31"]
    ELSE Pass

\* POST /api/employees
CreateEmployee(user, body) ==
    /\ response = NoResponse
    /\ Len(employeeTable) < MaxEmployees
    /\ IF ~AdminOnly(user).ok
        THEN response' = AdminOnly(user).reply /\ UNCHANGED dbVars
        ELSE IF ~ValidateEmployeeBody(body).ok
            THEN /\ response' = Reply(400, ValidateEmployeeBody(body).message, Null)
                 /\ UNCHANGED dbVars
            ELSE IF \E i \in DOMAIN employeeTable : employeeTable[i].email = body.email
            THEN /\ response' = Reply(400, "Employee with this email already exists", Null)
                 /\ UNCHANGED dbVars
            ELSE LET employee ==
                         [id |-> Len(employeeTable) + 1,
                          email |-> body.email,
                          basicSalary |-> body.basicSalary,
                          hra |-> body.hra,
                          allowances |-> body.allowances,
                          workingDays |-> IF Has(body, "workingDays") /\ body.workingDays # Zero
                                          THEN body.workingDays ELSE Num(22),
                          isActive |-> TRUE]
                 IN  /\ employeeTable' = Append(employeeTable, employee)
                     /\ response' = Reply(201, "Employee created successfully", employee)
                     /\ UNCHANGED <<attendanceTable, nextAttendanceId>>
    /\ UNCHANGED <<TAX_SLABS, calcVars, userVars, payrollVars, requests>>

\* prisma.employee.update: the fields the data object sets replace the row's
UpdatedEmployee(row, data) ==
    [f \in DOMAIN row |-> IF Has(data, f) THEN data[f] ELSE row[f]]

\* PUT /api/employees/:id
UpdateEmployee(user, employeeId, body) ==
    /\ response = NoResponse
    /\ IF ~AdminOnly(user).ok
        THEN response' = AdminOnly(user).reply /\ UNCHANGED dbVars
        ELSE IF ~ValidateEmployeeBody(body).ok
            THEN /\ response' = Reply(400, ValidateEmployeeBody(body).message, Null)
                 /\ UNCHANGED dbVars
            ELSE IF employeeId \notin DOMAIN employeeTable
            THEN /\ response' = Reply(404, "Employee not found", Null)
                 /\ UNCHANGED dbVars
            ELSE IF /\ Has(body, "email")
                    /\ body.email # employeeTable[employeeId].email
                    /\ \E i \in DOMAIN employeeTable : employeeTable[i].email = body.email
            THEN /\ response' = Reply(400, "Employee with this email already exists", Null)
                 /\ UNCHANGED dbVars
            ELSE LET employee == UpdatedEmployee(employeeTable[employeeId], body)
                 IN  /\ employeeTable' = [employeeTable EXCEPT ![employeeId] = employee]
                     /\ response' = Reply(200, "Employee updated successfully", employee)
                     /\ UNCHANGED <<attendanceTable, nextAttendanceId>>
    /\ UNCHANGED <<TAX_SLABS, calcVars, userVars, payrollVars, requests>>

\* GET /api/employees/:id; the bounded tables fit in `take: 10` and `take: 5`
GetEmployee(user, employeeId) ==
    /\ response = NoResponse
    /\ response' =
           IF ~EmployeeAccess(user, employeeId).ok
           THEN EmployeeAccess(user, employeeId).reply
           ELSE IF employeeId \notin DOMAIN employeeTable
           THEN Reply(404, "Employee not found", Null)
           ELSE Reply(200, "Employee retrieved successfully",
                      [employee |-> employeeTable[employeeId],
                       attendances |-> {a \in attendanceTable : a.employeeId = employeeId},
                       payrolls |-> {q \in payrollTable : q.employeeId = employeeId}])
    /\ UNCHANGED <<TAX_SLABS, calcVars, userVars, dbVars, payrollVars, requests>>

\* GET /api/employees; page 1 of the default limit holds the bounded table
ListEmployees(user) ==
    /\ response = NoResponse
    /\ response' =
           IF ~AdminOnly(user).ok THEN AdminOnly(user).reply
           ELSE Reply(200, "Employees retrieved successfully",
                      [employees |-> employeeTable, totalCount |-> Len(employeeTable)])
    /\ UNCHANGED <<TAX_SLABS, calcVars, userVars, dbVars, payrollVars, requests>>

\* the delete route removing the attendance and payroll records of the
\* employee it deactivates
DeleteEmployeeCascading(user, employeeId) ==
    /\ response = NoResponse
    /\ IF ~AdminOnly(user).ok
        THEN response' = AdminOnly(user).reply /\ UNCHANGED <<dbVars, payrollVars>>
        ELSE IF employeeId \notin DOMAIN employeeTable
            THEN /\ response' = Reply(404, "Employee not found", Null)
                 /\ UNCHANGED <<dbVars, payrollVars>>
            ELSE /\ employeeTable' = [employeeTable EXCEPT ![employeeId].isActive = FALSE]
                 /\ attendanceTable' =
                        {a \in attendanceTable : a.employeeId # employeeId}
                 /\ payrollTable' = {q \in payrollTable : q.employeeId # employeeId}
                 /\ response' = Reply(200, "Employee deactivated successfully", Null)
                 /\ UNCHANGED <<nextAttendanceId, nextPayrollId>>
    /\ UNCHANGED <<TAX_SLABS, calcVars, userVars, requests>>

\* DELETE /api/employees/:id
DeleteEmployee(user, employeeId) ==
    /\ response = NoResponse
    /\ IF ~AdminOnly(user).ok
        THEN response' = AdminOnly(user).reply /\ UNCHANGED dbVars
        ELSE IF employeeId \notin DOMAIN employeeTable
            THEN /\ response' = Reply(404, "Employee not found", Null)
                 /\ UNCHANGED dbVars
            ELSE /\ employeeTable' = [employeeTable EXCEPT ![employeeId].isActive = FALSE]
                 /\ response' = Reply(200, "Employee deactivated successfully", Null)
                 /\ UNCHANGED <<attendanceTable, nextAttendanceId>>
    /\ UNCHANGED <<TAX_SLABS, calcVars, userVars, payrollVars, requests>>

(* routes/attendance.ts *)

\* 1 January at 00:00, 31 January at 00:00 and 31 January at 09:00
DateSamples == {Date(2024, 1, 1, 0), Date(2024, 1, 31, 0), Date(2024, 1, 31, 9)}

StatusSamples == {"PRESENT", "ABSENT"}

\* request bodies of POST /api/attendance/mark and PUT /api/attendance/:id
AttendanceBodies ==
    {[employeeId |-> e, date |-> d, hoursWorked |-> h, status |-> s] :
        e \in EmployeeIdSamples, d \in DateSamples,
        h \in {Zero, Num(4), Num(8)}, s \in StatusSamples}
    \cup
    {[employeeId |-> 1, date |-> Date(2024, 1, 1, 0), hoursWorked |-> Num(25),
      status |-> "PRESENT"],
     [employeeId |-> 1, date |-> Date(2024, 1, 1, 0), hoursWorked |-> Num(8),
      status |-> "OVERTIME"]}

AttendanceIdSamples == 1..(MaxAttendance + 1)

\* the first message of markAttendanceSchema
ValidateAttendanceBody(body) ==
    IF body.employeeId <= 0
    THEN [ok |-> FALSE, message |-> "\"employeeId\" must be a positive number"]
    ELSE IF Lt(body.hoursWorked, Zero)
    THEN [ok |-> FALSE, message |-> "\"hoursWorked\" must be greater than or equal to 0"]
    ELSE IF Gt(body.hoursWorked, Num(24))
    THEN [ok |-> FALSE, message |-> "\"hoursWorked\" must be less than or equal to 24"]
    ELSE IF body.status \notin {"PRESENT", "ABSENT", "HALF_DAY", "LEAVE"}
    THEN [ok |-> FALSE,
          message |-> "\"status\" must be one of [PRESENT, ABSENT, HALF_DAY, LEAVE]"]
    ELSE Pass

AttendanceRow(id, body) ==
    [id |-> id, employeeId |-> body.employeeId, date |-> body.date,
     hoursWorked |-> body.hoursWorked, status |-> body.status]

\* POST /api/attendance/mark
MarkAttendance(user, body) ==
    /\ response = NoResponse
    /\ nextAttendanceId <= MaxAttendance
    /\ IF ~authenticate(user).ok
        THEN response' = authenticate(user).reply /\ UNCHANGED dbVars
        ELSE IF ~ValidateAttendanceBody(body).ok
            THEN /\ response' = Reply(400, ValidateAttendanceBody(body).message, Null)
                 /\ UNCHANGED dbVars
            ELSE IF user.roles = "EMPLOYEE" /\ UserEmployeeId(user) # Num(body.employeeId)
            THEN /\ response' = Reply(403, "You can only mark your own attendance", Null)
                 /\ UNCHANGED dbVars
            ELSE IF body.employeeId \notin DOMAIN employeeTable
            THEN /\ response' = Reply(404, "Employee not found", Null)
                 /\ UNCHANGED dbVars
            ELSE IF ~employeeTable[body.employeeId].isActive
            THEN /\ response' =
                        Reply(400, "Cannot mark attendance for inactive employee", Null)
                 /\ UNCHANGED dbVars
            ELSE IF \E a \in attendanceTable :
                        a.employeeId = body.employeeId /\ a.date = body.date
            THEN /\ response' = Reply(400, "Attendance already marked for this date", Null)
                 /\ UNCHANGED dbVars
            ELSE LET attendance == AttendanceRow(nextAttendanceId, body)
                 IN  /\ attendanceTable' = attendanceTable \cup {attendance}
                     /\ nextAttendanceId' = nextAttendanceId + 1
                     /\ response' = Reply(201, "Attendance marked successfully", attendance)
                     /\ UNCHANGED employeeTable
    /\ UNCHANGED <<TAX_SLABS, calcVars, userVars, payrollVars, requests>>

\* the query of the read routes: month 0 stands for no month and year
QuerySamples == {[month |-> 0, year |-> 0], [month |-> 1, year |-> 2024]}

\* the summary of GET /api/attendance/:employeeId
RECURSIVE AttendanceSummary(_)
AttendanceSummary(rows) ==
    IF rows = {}
    THEN [fullDays |-> 0, halfDays |-> 0, absentDays |-> 0, totalHours |-> Zero]
    ELSE LET a == CHOOSE r \in rows : TRUE
             acc == AttendanceSummary(rows \ {a})
         IN  [fullDays |-> acc.fullDays + (IF Ge(a.hoursWorked, Num(8)) THEN 1 ELSE 0),
              halfDays |-> acc.halfDays +
                  (IF ~Ge(a.hoursWorked, Num(8)) /\ Gt(a.hoursWorked, Zero) THEN 1 ELSE 0),
              absentDays |-> acc.absentDays +
                  (IF ~Ge(a.hoursWorked, Num(8)) /\ ~Gt(a.hoursWorked, Zero) THEN 1 ELSE 0),
              totalHours |-> Add(acc.totalHours, a.hoursWorked)]

\* GET /api/attendance/:employeeId
GetAttendance(user, employeeId, query) ==
    /\ response = NoResponse
    /\ response' =
           IF ~authenticate(user).ok THEN authenticate(user).reply
           ELSE IF user.roles = "EMPLOYEE" /\ UserEmployeeId(user) # Num(employeeId)
           THEN Reply(403, "You can only view your own attendance", Null)
           ELSE IF employeeId \notin DOMAIN employeeTable
           THEN Reply(404, "Employee not found", Null)
           ELSE LET attendances ==
                        {a \in attendanceTable :
                            /\ a.employeeId = employeeId
                            /\ (query.month # 0 /\ query.year # 0) =>
                                   /\ DateLe(MonthStart(query.year, query.month), a.date)
                                   /\ DateLe(a.date, MonthEnd(query.year, query.month))}
                IN  Reply(200, "Attendance records retrieved successfully",
                          [attendances |-> attendances,
                           summary |-> AttendanceSummary(attendances),
                           employee |-> [id |-> employeeId]])
    /\ UNCHANGED <<TAX_SLABS, calcVars, userVars, dbVars, payrollVars, requests>>

\* PUT /api/attendance/:id
UpdateAttendance(user, attendanceId, body) ==
    /\ response = NoResponse
    /\ IF ~AdminOnly(user).ok
        THEN response' = AdminOnly(user).reply /\ UNCHANGED dbVars
        ELSE IF ~ValidateAttendanceBody(body).ok
            THEN /\ response' = Reply(400, ValidateAttendanceBody(body).message, Null)
                 /\ UNCHANGED dbVars
            ELSE IF ~\E a \in attendanceTable : a.id = attendanceId
            THEN /\ response' = Reply(404, "Attendance record not found", Null)
                 /\ UNCHANGED dbVars
            ELSE IF body.employeeId \notin DOMAIN employeeTable
            THEN \* Attendance_employeeId_fkey rejects the update: the catch block
                 /\ response' = Reply(500, "Internal server error", Null)
                 /\ UNCHANGED dbVars
            ELSE LET updatedAttendance == AttendanceRow(attendanceId, body)
                 IN  /\ attendanceTable' =
                            {a \in attendanceTable : a.id # attendanceId}
                                \cup {updatedAttendance}
                     /\ response' =
                            Reply(200, "Attendance updated successfully", updatedAttendance)
                     /\ UNCHANGED <<employeeTable, nextAttendanceId>>
    /\ UNCHANGED <<TAX_SLABS, calcVars, userVars, payrollVars, requests>>

\* DELETE /api/attendance/:id
DeleteAttendance(user, attendanceId) ==
    /\ response = NoResponse
    /\ IF ~AdminOnly(user).ok
        THEN response' = AdminOnly(user).reply /\ UNCHANGED dbVars
        ELSE IF ~\E a \in attendanceTable : a.id = attendanceId
            THEN /\ response' = Reply(404, "Attendance record not found", Null)
                 /\ UNCHANGED dbVars
            ELSE /\ attendanceTable' = {a \in attendanceTable : a.id # attendanceId}
                 /\ response' = Reply(200, "Attendance record deleted successfully", Null)
                 /\ UNCHANGED <<employeeTable, nextAttendanceId>>
    /\ UNCHANGED <<TAX_SLABS, calcVars, userVars, payrollVars, requests>>

(* routes/salary.ts *)

\* `new Date()` when a payroll record is created
Now == Date(2024, 3, 1, 12)

\* prisma.payroll.findUnique({ where: { employeeId_month_year } })
FindPayroll(table, employeeId, month, year) ==
    {p \in table : p.employeeId = employeeId /\ p.month = month /\ p.year = year}

\* the data of prisma.payroll.create
PayrollRow(id, employeeId, month, year, salaryCalculation) ==
    [id |-> id, employeeId |-> employeeId, month |-> month, year |-> year,
     grossSalary |-> salaryCalculation.grossSalary,
     deductions |-> Add(Add(salaryCalculation.taxDeductions,
                            salaryCalculation.pfDeductions),
                        salaryCalculation.otherDeductions),
     taxDeductions |-> salaryCalculation.taxDeductions,
     pfDeductions |-> salaryCalculation.pfDeductions,
     otherDeductions |-> salaryCalculation.otherDeductions,
     netSalary |-> salaryCalculation.netSalary,
     paymentDate |-> Now,
     fulldays |-> salaryCalculation.fullDays,
     halfdays |-> salaryCalculation.halfDays]

\* request bodies of POST /api/salary/calculate; otherDeductions may be left out
CalculateSalaryBodies ==
    {[employeeId |-> e, month |-> m, year |-> 2024, otherDeductions |-> o] :
        e \in EmployeeIdSamples, m \in {1, 2}, o \in {Undefined, Num(1000)}}
    \cup
    {[employeeId |-> 1, month |-> 1, year |-> 2024, otherDeductions |-> Num(-1)],
     [employeeId |-> 1, month |-> 13, year |-> 2024, otherDeductions |-> Undefined]}

\* the first message of calculateSalarySchema
ValidateSalaryBody(body) ==
    IF body.employeeId <= 0
    THEN [ok |-> FALSE, message |-> "\"employeeId\" must be a positive number"]
    ELSE IF body.month < 1
    THEN [ok |-> FALSE, message |-> "\"month\" must be greater than or equal to 1"]
    ELSE IF body.month > 12
    THEN [ok |-> FALSE, message |-> "\"month\" must be less than or equal to 12"]
    ELSE IF body.year < 2020
    THEN [ok |-> FALSE, message |-> "\"year\" must be greater than or equal to 2020"]
    ELSE IF body.year > 2030
    THEN [ok |-> FALSE, message |-> "\"year\" must be less than or equal to 2030"]
    ELSE IF body.otherDeductions # Undefined /\ Lt(body.otherDeductions, Zero)
    THEN [ok |-> FALSE,
          message |-> "\"otherDeductions\" must be greater than or equal to 0"]
    ELSE Pass

\* the calculate route saving what it has calculated, as the generate route does
CalculateSalarySaving(user, body) ==
    /\ response = NoResponse
    /\ IF ~AdminOnly(user).ok
        THEN response' = AdminOnly(user).reply /\ UNCHANGED payrollVars
        ELSE IF ~ValidateSalaryBody(body).ok
            THEN /\ response' = Reply(400, ValidateSalaryBody(body).message, Null)
                 /\ UNCHANGED payrollVars
            ELSE LET salaryCalculation ==
                         calculateEmployeeSalary(TAX_SLABS, employeeTable, attendanceTable,
                                                 body.employeeId, body.month, body.year,
                                                 OrDefault(body.otherDeductions, Zero))
                 IN  IF ~salaryCalculation.ok
                     THEN /\ response' = Reply(400, salaryCalculation.message, Null)
                          /\ UNCHANGED payrollVars
                     ELSE /\ response' = Reply(200, "Salary calculated successfully",
                                               salaryCalculation.value)
                          /\ payrollTable' =
                                 (payrollTable \ FindPayroll(payrollTable, body.employeeId,
                                                             body.month, body.year))
                                     \cup {PayrollRow(nextPayrollId, body.employeeId,
                                                      body.month, body.year,
                                                      salaryCalculation.value)}
                          /\ nextPayrollId' = nextPayrollId + 1
    /\ UNCHANGED <<TAX_SLABS, calcVars, userVars, dbVars, requests>>

\* POST /api/salary/calculate
CalculateSalary(user, body) ==
    /\ response = NoResponse
    /\ IF ~AdminOnly(user).ok
        THEN response' = AdminOnly(user).reply
        ELSE IF ~ValidateSalaryBody(body).ok
            THEN response' = Reply(400, ValidateSalaryBody(body).message, Null)
            ELSE LET salaryCalculation ==
                         calculateEmployeeSalary(TAX_SLABS, employeeTable, attendanceTable,
                                                 body.employeeId, body.month, body.year,
                                                 OrDefault(body.otherDeductions, Zero))
                 IN  IF ~salaryCalculation.ok
                     THEN response' = Reply(400, salaryCalculation.message, Null)
                     ELSE response' = Reply(200, "Salary calculated successfully",
                                            salaryCalculation.value)
    /\ UNCHANGED <<TAX_SLABS, calcVars, userVars, dbVars, payrollVars, requests>>

(* routes/salary.ts: POST /api/salary/:employeeId/generate *)

\* request bodies of the generate route; month 0 stands for a missing month
GenerateSalaryBodies ==
    {[month |-> m, year |-> 2024, otherDeductions |-> o] :
        m \in {0, 1, 2}, o \in {Undefined, Num(1000)}}

\* the message of the error prisma.payroll.create throws on
\* Payroll_employeeId_month_year_key, without its preamble and its quoting
UniqueConstraintFailed ==
    "Unique constraint failed on the fields: (employeeId, month, year)"

\* the generate route replacing the record of the month when there is one
GenerateSalaryRegenerating(user, employeeId, body) ==
    /\ response = NoResponse
    /\ IF ~AdminOnly(user).ok
       THEN response' = AdminOnly(user).reply /\ UNCHANGED payrollVars
       ELSE IF body.month = 0 \/ body.year = 0
       THEN /\ response' = Reply(400, "Month and year are required", Null)
            /\ UNCHANGED payrollVars
       ELSE LET salaryCalculation ==
                    calculateEmployeeSalary(TAX_SLABS, employeeTable, attendanceTable,
                                            employeeId, body.month, body.year,
                                            OrDefault(body.otherDeductions, Zero))
            IN  IF ~salaryCalculation.ok
                THEN /\ response' = Reply(400, salaryCalculation.message, Null)
                     /\ UNCHANGED payrollVars
                ELSE LET payroll == PayrollRow(nextPayrollId, employeeId, body.month,
                                               body.year, salaryCalculation.value)
                     IN  /\ payrollTable' =
                                (payrollTable \ FindPayroll(payrollTable, employeeId,
                                                            body.month, body.year))
                                    \cup {payroll}
                         /\ nextPayrollId' = nextPayrollId + 1
                         /\ response' =
                                Reply(201, "Salary generated and saved successfully", payroll)
    /\ UNCHANGED <<TAX_SLABS, calcVars, userVars, dbVars, requests>>

\* POST /api/salary/:employeeId/generate, handled without interruption
GenerateSalary(user, employeeId, body) ==
    /\ response = NoResponse
    /\ IF ~AdminOnly(user).ok
       THEN response' = AdminOnly(user).reply /\ UNCHANGED payrollVars
       ELSE IF body.month = 0 \/ body.year = 0
       THEN /\ response' = Reply(400, "Month and year are required", Null)
            /\ UNCHANGED payrollVars
       ELSE IF FindPayroll(payrollTable, employeeId, body.month, body.year) # {}
       THEN /\ response' = Reply(400, "Payroll already exists for this month and year", Null)
            /\ UNCHANGED payrollVars
       ELSE LET salaryCalculation ==
                    calculateEmployeeSalary(TAX_SLABS, employeeTable, attendanceTable,
                                            employeeId, body.month, body.year,
                                            OrDefault(body.otherDeductions, Zero))
            IN  IF ~salaryCalculation.ok
                THEN /\ response' = Reply(400, salaryCalculation.message, Null)
                     /\ UNCHANGED payrollVars
                ELSE LET payroll == PayrollRow(nextPayrollId, employeeId, body.month,
                                               body.year, salaryCalculation.value)
                     IN  /\ payrollTable' = payrollTable \cup {payroll}
                         /\ nextPayrollId' = nextPayrollId + 1
                         /\ response' =
                                Reply(201, "Salary generated and saved successfully", payroll)
    /\ UNCHANGED <<TAX_SLABS, calcVars, userVars, dbVars, requests>>

(* The same route with each `await` as a step of its own, for requests that
   are handled concurrently: requests[r] is the position of request r *)

Responding(reply) == [pc |-> "respond", response |-> reply]

\* the middleware and the checks before the first query
GenerateStart(r, user, employeeId, body) ==
    /\ requests[r] = Idle
    /\ requests' =
           [requests EXCEPT ![r] =
               IF ~AdminOnly(user).ok THEN Responding(AdminOnly(user).reply)
               ELSE IF body.month = 0 \/ body.year = 0
               THEN Responding(Reply(400, "Month and year are required", Null))
               ELSE [pc |-> "findPayroll", employeeId |-> employeeId, body |-> body]]
    /\ UNCHANGED <<TAX_SLABS, calcVars, userVars, dbVars, payrollVars, response>>

\* await prisma.payroll.findUnique
GenerateFindPayroll(r) ==
    /\ requests[r].pc = "findPayroll"
    /\ LET req == requests[r]
       IN  requests' =
               [requests EXCEPT ![r] =
                   IF FindPayroll(payrollTable, req.employeeId,
                                  req.body.month, req.body.year) # {}
                   THEN Responding(Reply(400,
                            "Payroll already exists for this month and year", Null))
                   ELSE [req EXCEPT !.pc = "calculate"]]
    /\ UNCHANGED <<TAX_SLABS, calcVars, userVars, dbVars, payrollVars, response>>

\* await calculateEmployeeSalary
GenerateCalculate(r) ==
    /\ requests[r].pc = "calculate"
    /\ LET req == requests[r]
           salaryCalculation ==
               calculateEmployeeSalary(TAX_SLABS, employeeTable, attendanceTable,
                                       req.employeeId, req.body.month, req.body.year,
                                       OrDefault(req.body.otherDeductions, Zero))
       IN  requests' =
               [requests EXCEPT ![r] =
                   IF ~salaryCalculation.ok
                   THEN Responding(Reply(400, salaryCalculation.message, Null))
                   ELSE [pc |-> "create", employeeId |-> req.employeeId,
                         body |-> req.body,
                         salaryCalculation |-> salaryCalculation.value]]
    /\ UNCHANGED <<TAX_SLABS, calcVars, userVars, dbVars, payrollVars, response>>

\* await prisma.payroll.create, without the unique index of the migration
GenerateCreateUnindexed(r) ==
    /\ requests[r].pc = "create"
    /\ LET req == requests[r]
           payroll == PayrollRow(nextPayrollId, req.employeeId, req.body.month,
                                 req.body.year, req.salaryCalculation)
       IN  /\ payrollTable' = payrollTable \cup {payroll}
           /\ nextPayrollId' = nextPayrollId + 1
           /\ requests' =
                  [requests EXCEPT ![r] = Responding(Reply(201,
                       "Salary generated and saved successfully", payroll))]
    /\ UNCHANGED <<TAX_SLABS, calcVars, userVars, dbVars, response>>

\* await prisma.payroll.create: Payroll_employeeId_month_year_key rejects a
\* second row of the key, and the catch block answers with the error's message
GenerateCreate(r) ==
    /\ requests[r].pc = "create"
    /\ LET req == requests[r]
           payroll == PayrollRow(nextPayrollId, req.employeeId, req.body.month,
                                 req.body.year, req.salaryCalculation)
       IN  IF FindPayroll(payrollTable, req.employeeId,
                          req.body.month, req.body.year) # {}
           THEN /\ requests' =
                       [requests EXCEPT ![r] =
                           Responding(Reply(400, UniqueConstraintFailed, Null))]
                /\ UNCHANGED payrollVars
           ELSE /\ payrollTable' = payrollTable \cup {payroll}
                /\ nextPayrollId' = nextPayrollId + 1
                /\ requests' =
                       [requests EXCEPT ![r] = Responding(Reply(201,
                            "Salary generated and saved successfully", payroll))]
    /\ UNCHANGED <<TAX_SLABS, calcVars, userVars, dbVars, response>>

\* res.status(...).json(...) of request r
Respond(r) ==
    /\ requests[r].pc = "respond"
    /\ requests' = [requests EXCEPT ![r] = Idle]
    /\ UNCHANGED <<TAX_SLABS, calcVars, userVars, dbVars, payrollVars, response>>

(* POST /api/attendance/mark with each `await` as a step of its own *)

FindAttendance(table, employeeId, date) ==
    {a \in table : a.employeeId = employeeId /\ a.date = date}

\* the middleware, the validation and the role check before the first query
MarkStart(r, user, body) ==
    /\ requests[r] = Idle
    /\ requests' =
           [requests EXCEPT ![r] =
               IF ~authenticate(user).ok THEN Responding(authenticate(user).reply)
               ELSE IF ~ValidateAttendanceBody(body).ok
               THEN Responding(Reply(400, ValidateAttendanceBody(body).message, Null))
               ELSE IF user.roles = "EMPLOYEE" /\ UserEmployeeId(user) # Num(body.employeeId)
               THEN Responding(Reply(403, "You can only mark your own attendance", Null))
               ELSE [pc |-> "findEmployee", body |-> body]]
    /\ UNCHANGED <<TAX_SLABS, calcVars, userVars, dbVars, payrollVars, response>>

\* await prisma.employee.findUnique
MarkFindEmployee(r) ==
    /\ requests[r].pc = "findEmployee"
    /\ LET req == requests[r]
       IN  requests' =
               [requests EXCEPT ![r] =
                   IF req.body.employeeId \notin DOMAIN employeeTable
                   THEN Responding(Reply(404, "Employee not found", Null))
                   ELSE IF ~employeeTable[req.body.employeeId].isActive
                   THEN Responding(Reply(400,
                            "Cannot mark attendance for inactive employee", Null))
                   ELSE [req EXCEPT !.pc = "findAttendance"]]
    /\ UNCHANGED <<TAX_SLABS, calcVars, userVars, dbVars, payrollVars, response>>

\* await prisma.attendance.findFirst
MarkFindAttendance(r) ==
    /\ requests[r].pc = "findAttendance"
    /\ LET req == requests[r]
       IN  requests' =
               [requests EXCEPT ![r] =
                   IF FindAttendance(attendanceTable, req.body.employeeId,
                                     req.body.date) # {}
                   THEN Responding(Reply(400,
                            "Attendance already marked for this date", Null))
                   ELSE [req EXCEPT !.pc = "createAttendance"]]
    /\ UNCHANGED <<TAX_SLABS, calcVars, userVars, dbVars, payrollVars, response>>

\* await prisma.attendance.create: the Attendance table has its primary key
\* and no index on (employeeId, date), so the insert is never rejected
MarkCreate(r) ==
    /\ requests[r].pc = "createAttendance"
    /\ nextAttendanceId <= MaxAttendance
    /\ LET attendance == AttendanceRow(nextAttendanceId, requests[r].body)
       IN  /\ attendanceTable' = attendanceTable \cup {attendance}
           /\ nextAttendanceId' = nextAttendanceId + 1
           /\ requests' =
                  [requests EXCEPT ![r] = Responding(Reply(201,
                       "Attendance marked successfully", attendance))]
    /\ UNCHANGED <<TAX_SLABS, calcVars, userVars, employeeTable, payrollVars, response>>

(* routes/salary.ts and routes/payroll.ts: reading and changing the payroll
   records *)

\* the totals the history routes accumulate over the rows they return
RECURSIVE PayrollTotals(_)
PayrollTotals(rows) ==
    IF rows = {}
    THEN [totalGrossSalary |-> Zero, totalNetSalary |-> Zero,
          totalTaxDeductions |-> Zero, totalPfDeductions |-> Zero]
    ELSE LET q == CHOOSE r \in rows : TRUE
             acc == PayrollTotals(rows \ {q})
         IN  [totalGrossSalary |-> Add(acc.totalGrossSalary, q.grossSalary),
              totalNetSalary |-> Add(acc.totalNetSalary, q.netSalary),
              totalTaxDeductions |-> Add(acc.totalTaxDeductions, q.taxDeductions),
              totalPfDeductions |-> Add(acc.totalPfDeductions, q.pfDeductions)]

\* GET /api/salary/:employeeId
GetSalary(user, employeeId, query) ==
    /\ response = NoResponse
    /\ response' =
           IF ~SalaryAccess(user, employeeId).ok
           THEN SalaryAccess(user, employeeId).reply
           ELSE IF query.month = 0 \/ query.year = 0
           THEN Reply(400, "Month and year parameters are required", Null)
           ELSE IF FindPayroll(payrollTable, employeeId, query.month, query.year) = {}
           THEN Reply(404, "Payroll record not found for the specified month and year",
                      Null)
           ELSE Reply(200, "Salary details retrieved successfully",
                      CHOOSE q \in FindPayroll(payrollTable, employeeId,
                                               query.month, query.year) : TRUE)
    /\ UNCHANGED <<TAX_SLABS, calcVars, userVars, dbVars, payrollVars, requests>>

\* GET /api/salary/:employeeId/history; page 1 holds the bounded table
GetSalaryHistory(user, employeeId) ==
    /\ response = NoResponse
    /\ response' =
           IF ~SalaryAccess(user, employeeId).ok
           THEN SalaryAccess(user, employeeId).reply
           ELSE LET payrolls == {q \in payrollTable : q.employeeId = employeeId}
                IN  Reply(200, "Salary history retrieved successfully",
                          [payrolls |-> payrolls, summary |-> PayrollTotals(payrolls),
                           totalCount |-> Cardinality(payrolls)])
    /\ UNCHANGED <<TAX_SLABS, calcVars, userVars, dbVars, payrollVars, requests>>

\* request bodies of POST /api/payroll/distribute
DistributePayrollBodies ==
    {[employeeId |-> e, month |-> m, year |-> 2024, paymentDate |-> Date(2024, 3, 5, 0)] :
        e \in EmployeeIdSamples, m \in {1, 2, 13}}

\* the first message of distributePayrollSchema
ValidateDistributeBody(body) ==
    IF body.employeeId <= 0
    THEN [ok |-> FALSE, message |-> "\"employeeId\" must be a positive number"]
    ELSE IF body.month < 1
    THEN [ok |-> FALSE, message |-> "\"month\" must be greater than or equal to 1"]
    ELSE IF body.month > 12
    THEN [ok |-> FALSE, message |-> "\"month\" must be less than or equal to 12"]
    ELSE IF body.year < 2020
    THEN [ok |-> FALSE, message |-> "\"year\" must be greater than or equal to 2020"]
    ELSE IF body.year > 2030
    THEN [ok |-> FALSE, message |-> "\"year\" must be less than or equal to 2030"]
    ELSE Pass

\* the distribute route dating every payroll record of the employee
DistributePayrollEveryMonth(user, body) ==
    /\ response = NoResponse
    /\ IF ~AdminOnly(user).ok
       THEN response' = AdminOnly(user).reply /\ UNCHANGED payrollVars
       ELSE IF ~ValidateDistributeBody(body).ok
       THEN /\ response' = Reply(400, ValidateDistributeBody(body).message, Null)
            /\ UNCHANGED payrollVars
       ELSE IF FindPayroll(payrollTable, body.employeeId, body.month, body.year) = {}
       THEN /\ response' =
                   Reply(404, "Payroll record not found. Please generate salary first.", Null)
            /\ UNCHANGED payrollVars
       ELSE IF ~employeeTable[body.employeeId].isActive
       THEN /\ response' =
                   Reply(400, "Cannot distribute payroll to inactive employee", Null)
            /\ UNCHANGED payrollVars
       ELSE LET payroll == CHOOSE q \in FindPayroll(payrollTable, body.employeeId,
                                                    body.month, body.year) : TRUE
                updatedPayroll == [payroll EXCEPT !.paymentDate = body.paymentDate]
            IN  /\ payrollTable' =
                       {IF q.employeeId = body.employeeId
                        THEN [q EXCEPT !.paymentDate = body.paymentDate]
                        ELSE q : q \in payrollTable}
                /\ response' = Reply(200, "Payroll distributed successfully", updatedPayroll)
                /\ UNCHANGED nextPayrollId
    /\ UNCHANGED <<TAX_SLABS, calcVars, userVars, dbVars, requests>>

\* the distribute route without its check of employee.isActive
DistributePayrollToInactive(user, body) ==
    /\ response = NoResponse
    /\ IF ~AdminOnly(user).ok
       THEN response' = AdminOnly(user).reply /\ UNCHANGED payrollVars
       ELSE IF ~ValidateDistributeBody(body).ok
       THEN /\ response' = Reply(400, ValidateDistributeBody(body).message, Null)
            /\ UNCHANGED payrollVars
       ELSE IF FindPayroll(payrollTable, body.employeeId, body.month, body.year) = {}
       THEN /\ response' =
                   Reply(404, "Payroll record not found. Please generate salary first.", Null)
            /\ UNCHANGED payrollVars
       ELSE LET payroll == CHOOSE q \in FindPayroll(payrollTable, body.employeeId,
                                                    body.month, body.year) : TRUE
                updatedPayroll == [payroll EXCEPT !.paymentDate = body.paymentDate]
            IN  /\ payrollTable' = (payrollTable \ {payroll}) \cup {updatedPayroll}
                /\ response' = Reply(200, "Payroll distributed successfully", updatedPayroll)
                /\ UNCHANGED nextPayrollId
    /\ UNCHANGED <<TAX_SLABS, calcVars, userVars, dbVars, requests>>

\* POST /api/payroll/distribute
DistributePayroll(user, body) ==
    /\ response = NoResponse
    /\ IF ~AdminOnly(user).ok
       THEN response' = AdminOnly(user).reply /\ UNCHANGED payrollVars
       ELSE IF ~ValidateDistributeBody(body).ok
       THEN /\ response' = Reply(400, ValidateDistributeBody(body).message, Null)
            /\ UNCHANGED payrollVars
       ELSE IF FindPayroll(payrollTable, body.employeeId, body.month, body.year) = {}
       THEN /\ response' =
                   Reply(404, "Payroll record not found. Please generate salary first.", Null)
            /\ UNCHANGED payrollVars
       ELSE IF ~employeeTable[body.employeeId].isActive
       THEN /\ response' =
                   Reply(400, "Cannot distribute payroll to inactive employee", Null)
            /\ UNCHANGED payrollVars
       ELSE LET payroll == CHOOSE q \in FindPayroll(payrollTable, body.employeeId,
                                                    body.month, body.year) : TRUE
                updatedPayroll == [payroll EXCEPT !.paymentDate = body.paymentDate]
            IN  /\ payrollTable' = (payrollTable \ {payroll}) \cup {updatedPayroll}
                /\ response' = Reply(200, "Payroll distributed successfully", updatedPayroll)
                /\ UNCHANGED nextPayrollId
    /\ UNCHANGED <<TAX_SLABS, calcVars, userVars, dbVars, requests>>

\* the rows of the month and year of the query, or every row without them
PayrollsOf(query) ==
    {q \in payrollTable :
        (query.month # 0 /\ query.year # 0) =>
            (q.month = query.month /\ q.year = query.year)}

\* GET /api/payroll/history; page 1 of the default limit holds the bounded table
PayrollHistory(user, query) ==
    /\ response = NoResponse
    /\ response' =
           IF ~AdminOnly(user).ok THEN AdminOnly(user).reply
           ELSE Reply(200, "Payroll history retrieved successfully",
                      [payrolls |-> PayrollsOf(query),
                       summary |-> PayrollTotals(PayrollsOf(query)),
                       totalCount |-> Cardinality(PayrollsOf(query))])
    /\ UNCHANGED <<TAX_SLABS, calcVars, userVars, dbVars, payrollVars, requests>>

\* GET /api/payroll/summary
PayrollSummary(user, query) ==
    /\ response = NoResponse
    /\ response' =
           IF ~AdminOnly(user).ok THEN AdminOnly(user).reply
           ELSE IF query.month = 0 \/ query.year = 0
           THEN Reply(400, "Month and year parameters are required", Null)
           ELSE Reply(200, "Payroll summary retrieved successfully",
                      [month |-> query.month, year |-> query.year,
                       summary |-> PayrollTotals(PayrollsOf(query)),
                       totalEmployees |-> Cardinality(PayrollsOf(query)),
                       payrolls |-> PayrollsOf(query)])
    /\ UNCHANGED <<TAX_SLABS, calcVars, userVars, dbVars, payrollVars, requests>>

PayrollIdSamples == 1..3

\* request bodies of PUT /api/payroll/:id; either field may be left out
UpdatePayrollBodies ==
    {[otherDeductions |-> Zero], [otherDeductions |-> Num(500)],
     [paymentDate |-> Date(2024, 3, 5, 0)]}

\* the updateData of PUT /api/payroll/:id applied to the row
UpdatedPayroll(existingPayroll, body) ==
    LET dated == IF Has(body, "paymentDate")
                 THEN [existingPayroll EXCEPT !.paymentDate = body.paymentDate]
                 ELSE existingPayroll
    IN  IF Has(body, "otherDeductions")
        THEN [dated EXCEPT
                 !.otherDeductions = body.otherDeductions,
                 !.netSalary = Sub(Sub(Sub(existingPayroll.grossSalary,
                                           existingPayroll.taxDeductions),
                                       existingPayroll.pfDeductions),
                                   body.otherDeductions)]
        ELSE dated

\* PUT /api/payroll/:id
UpdatePayroll(user, payrollId, body) ==
    /\ response = NoResponse
    /\ IF ~AdminOnly(user).ok
       THEN response' = AdminOnly(user).reply /\ UNCHANGED payrollVars
       ELSE IF ~\E p \in payrollTable : p.id = payrollId
       THEN /\ response' = Reply(404, "Payroll record not found", Null)
            /\ UNCHANGED payrollVars
       ELSE LET existingPayroll == CHOOSE p \in payrollTable : p.id = payrollId
                updatedPayroll == UpdatedPayroll(existingPayroll, body)
            IN  /\ payrollTable' = (payrollTable \ {existingPayroll}) \cup {updatedPayroll}
                /\ response' =
                       Reply(200, "Payroll record updated successfully", updatedPayroll)
                /\ UNCHANGED nextPayrollId
    /\ UNCHANGED <<TAX_SLABS, calcVars, userVars, dbVars, requests>>

\* res.status(...).json(response): the response leaves the server
SendResponse ==
    /\ response # NoResponse
    /\ response' = NoResponse
    /\ UNCHANGED <<TAX_SLABS, calcVars, userVars, dbVars, payrollVars, requests>>

Init ==
    /\ Loaded
    /\ taxQueue = <<>>
    /\ salQueue = <<>>

\* any request of any sampled user, one at a time
Next ==
    \/ \E user \in UserSamples, body \in CreateEmployeeBodies : CreateEmployee(user, body)
    \/ \E user \in UserSamples, employeeId \in EmployeeIdSamples,
          body \in UpdateEmployeeBodies : UpdateEmployee(user, employeeId, body)
    \/ \E user \in UserSamples, employeeId \in EmployeeIdSamples :
          DeleteEmployee(user, employeeId)
    \/ \E user \in UserSamples, body \in AttendanceBodies : MarkAttendance(user, body)
    \/ \E user \in UserSamples, attendanceId \in AttendanceIdSamples,
          body \in AttendanceBodies : UpdateAttendance(user, attendanceId, body)
    \/ \E user \in UserSamples, attendanceId \in AttendanceIdSamples :
          DeleteAttendance(user, attendanceId)
    \/ \E user \in UserSamples, body \in CalculateSalaryBodies : CalculateSalary(user, body)
    \/ SendResponse

Spec == Init /\ [][Next]_vars

(* Concurrent generate requests for one employee *)

Admin == [roles |-> "ADMIN", employee |-> Null]

RaceEmployeeBody ==
    [email |-> "a@hr.test", basicSalary |-> Num(50000), hra |-> Num(10000),
     allowances |-> Num(5000)]

\* two bodies of the same month and one of another month
RaceGenerateBodies ==
    {[month |-> 1, year |-> 2024, otherDeductions |-> Undefined],
     [month |-> 1, year |-> 2024, otherDeductions |-> Num(1000)],
     [month |-> 2, year |-> 2024, otherDeductions |-> Undefined]}

NextGenerateRace ==
    \/ CreateEmployee(Admin, RaceEmployeeBody)
    \/ SendResponse
    \/ \E r \in 1..MaxRequests, user \in UserSamples, body \in RaceGenerateBodies :
          GenerateStart(r, user, 1, body)
    \/ \E r \in 1..MaxRequests : GenerateFindPayroll(r)
    \/ \E r \in 1..MaxRequests : GenerateCalculate(r)
    \/ \E r \in 1..MaxRequests : GenerateCreate(r)
    \/ \E r \in 1..MaxRequests : Respond(r)

SpecGenerateRace == Init /\ [][NextGenerateRace]_vars

(* One employee, the attendance of two days marked by concurrent requests *)

RaceAttendanceBodies ==
    {[employeeId |-> 1, date |-> Date(2024, 1, 1, 0), hoursWorked |-> Num(8),
      status |-> "PRESENT"],
     [employeeId |-> 1, date |-> Date(2024, 1, 1, 0), hoursWorked |-> Num(4),
      status |-> "HALF_DAY"],
     [employeeId |-> 1, date |-> Date(2024, 1, 31, 0), hoursWorked |-> Num(8),
      status |-> "PRESENT"]}

NextMarkRace ==
    \/ CreateEmployee(Admin, RaceEmployeeBody)
    \/ DeleteEmployee(Admin, 1)
    \/ SendResponse
    \/ \E r \in 1..MaxRequests, user \in UserSamples, body \in RaceAttendanceBodies :
          MarkStart(r, user, body)
    \/ \E r \in 1..MaxRequests : MarkFindEmployee(r)
    \/ \E r \in 1..MaxRequests : MarkFindAttendance(r)
    \/ \E r \in 1..MaxRequests : MarkCreate(r)
    \/ \E r \in 1..MaxRequests : Respond(r)

SpecMarkRace == Init /\ [][NextMarkRace]_vars

(* One employee's payroll, the requests handled one at a time *)

Manager == [roles |-> "MANAGER", employee |-> Null]

PayrollEmployeeUpdates ==
    {[basicSalary |-> Num(20000), hra |-> Zero, allowances |-> Zero],
     [isActive |-> TRUE]}

\* a full day on 1 January and a half day on 31 January
PayrollAttendanceBodies ==
    {[employeeId |-> 1, date |-> Date(2024, 1, 1, 0), hoursWorked |-> Num(8),
      status |-> "PRESENT"],
     [employeeId |-> 1, date |-> Date(2024, 1, 31, 0), hoursWorked |-> Num(4),
      status |-> "PRESENT"]}

PayrollGenerateBodies == {b \in GenerateSalaryBodies : b.month # 2}

PayrollCalculateBodies ==
    {[employeeId |-> e, month |-> 1, year |-> 2024, otherDeductions |-> Undefined] :
        e \in EmployeeIdSamples}

PayrollUpdateBodies == {b \in UpdatePayrollBodies : Has(b, "otherDeductions")}

PayrollDistributeBodies ==
    {b \in DistributePayrollBodies : b.employeeId = 1 /\ b.month \in {1, 2}}

NextPayroll ==
    \/ CreateEmployee(Admin, RaceEmployeeBody)
    \/ \E body \in PayrollEmployeeUpdates : UpdateEmployee(Manager, 1, body)
    \/ DeleteEmployee(Admin, 1)
    \/ \E body \in PayrollAttendanceBodies : MarkAttendance(Manager, body)
    \/ \E user \in UserSamples, body \in PayrollCalculateBodies :
          CalculateSalary(user, body)
    \/ \E user \in UserSamples, employeeId \in EmployeeIdSamples,
          body \in PayrollGenerateBodies : GenerateSalary(user, employeeId, body)
    \/ \E user \in UserSamples, payrollId \in PayrollIdSamples,
          body \in PayrollUpdateBodies : UpdatePayroll(user, payrollId, body)
    \/ \E user \in UserSamples, body \in PayrollDistributeBodies :
          DistributePayroll(user, body)
    \/ SendResponse

SpecPayroll == Init /\ [][NextPayroll]_vars

(* Every route, for every sampled user, on one employee's records *)

AccessAttendanceBody ==
    [employeeId |-> 1, date |-> Date(2024, 1, 1, 0), hoursWorked |-> Num(8),
     status |-> "PRESENT"]

AccessAttendanceBodies ==
    {[AccessAttendanceBody EXCEPT !.employeeId = e] : e \in EmployeeIdSamples}

AccessAttendanceUpdate == [AccessAttendanceBody EXCEPT !.hoursWorked = Num(4)]

AccessGenerateBody == [month |-> 1, year |-> 2024, otherDeductions |-> Undefined]

AccessCalculateBody ==
    [employeeId |-> 1, month |-> 1, year |-> 2024, otherDeductions |-> Undefined]

AccessDistributeBody ==
    [employeeId |-> 1, month |-> 1, year |-> 2024, paymentDate |-> Date(2024, 3, 5, 0)]

\* the routes registered with authorize('ADMIN', 'MANAGER')
HrOnlyRequest(user) ==
    \/ CreateEmployee(user, RaceEmployeeBody)
    \/ ListEmployees(user)
    \/ UpdateEmployee(user, 1, [isActive |-> TRUE])
    \/ DeleteEmployee(user, 1)
    \/ UpdateAttendance(user, 1, AccessAttendanceUpdate)
    \/ DeleteAttendance(user, 1)
    \/ CalculateSalary(user, AccessCalculateBody)
    \/ GenerateSalary(user, 1, AccessGenerateBody)
    \/ DistributePayroll(user, AccessDistributeBody)
    \/ \E query \in QuerySamples : PayrollHistory(user, query)
    \/ \E query \in QuerySamples : PayrollSummary(user, query)
    \/ UpdatePayroll(user, 1, [otherDeductions |-> Num(500)])

\* the routes registered with canAccessEmployee or canAccessSalary
OwnRecordRequest(user, employeeId) ==
    \/ GetEmployee(user, employeeId)
    \/ \E query \in QuerySamples : GetSalary(user, employeeId, query)
    \/ GetSalaryHistory(user, employeeId)

\* the attendance routes that check the role in the handler
AttendanceRequest(user, employeeId) ==
    \/ MarkAttendance(user, [AccessAttendanceBody EXCEPT !.employeeId = employeeId])
    \/ \E query \in QuerySamples : GetAttendance(user, employeeId, query)

NextAccess ==
    \/ \E user \in UserSamples : HrOnlyRequest(user)
    \/ \E user \in UserSamples, employeeId \in EmployeeIdSamples :
          OwnRecordRequest(user, employeeId)
    \/ \E user \in UserSamples, employeeId \in EmployeeIdSamples :
          AttendanceRequest(user, employeeId)
    \/ SendResponse

SpecAccess == Init /\ [][NextAccess]_vars

(* One employee's calculations and payroll, with other deductions of either
   sign in the requests *)

DeductionSamples == {Undefined, Num(-1000), Num(1000)}

DeductionCalculateBodies ==
    {[employeeId |-> 1, month |-> 1, year |-> 2024, otherDeductions |-> o] :
        o \in DeductionSamples}

DeductionGenerateBodies ==
    {[month |-> m, year |-> 2024, otherDeductions |-> o] :
        m \in {1, 2}, o \in DeductionSamples}

DeductionUpdateBodies ==
    {[otherDeductions |-> Num(-500)], [otherDeductions |-> Num(500)],
     [paymentDate |-> Date(2024, 3, 5, 0)]}

NextDeductions ==
    \/ CreateEmployee(Admin, RaceEmployeeBody)
    \/ \E body \in DeductionCalculateBodies : CalculateSalary(Manager, body)
    \/ \E body \in DeductionGenerateBodies : GenerateSalary(Manager, 1, body)
    \/ \E payrollId \in 1..2, body \in DeductionUpdateBodies :
          UpdatePayroll(Manager, payrollId, body)
    \/ SendResponse

SpecDeductions == Init /\ [][NextDeductions]_vars

(* One employee's payroll of two months, distributed *)

DistributeGenerateBodies ==
    {b \in GenerateSalaryBodies : b.month # 0 /\ b.otherDeductions = Undefined}

NextDistribute ==
    \/ CreateEmployee(Admin, RaceEmployeeBody)
    \/ UpdateEmployee(Manager, 1, [isActive |-> TRUE])
    \/ DeleteEmployee(Admin, 1)
    \/ MarkAttendance(Manager, AccessAttendanceBody)
    \/ \E body \in DistributeGenerateBodies : GenerateSalary(Manager, 1, body)
    \/ \E user \in UserSamples, body \in DistributePayrollBodies :
          DistributePayroll(user, body)
    \/ SendResponse

SpecDistribute == Init /\ [][NextDistribute]_vars

(* One employee's attendance of two days, marked, changed and deleted by
   requests handled one at a time *)

NextAttendance ==
    \/ CreateEmployee(Admin, RaceEmployeeBody)
    \/ \E body \in RaceAttendanceBodies : MarkAttendance(Manager, body)
    \/ \E user \in UserSamples, attendanceId \in AttendanceIdSamples,
          body \in RaceAttendanceBodies : UpdateAttendance(user, attendanceId, body)
    \/ \E attendanceId \in AttendanceIdSamples : DeleteAttendance(Manager, attendanceId)
    \/ SendResponse

SpecAttendance == Init /\ [][NextAttendance]_vars

(* Signups, one at a time *)

NextSignup ==
    \/ \E body \in SignupBodies : Signup(body)
    \/ SendResponse

SpecSignup == Init /\ [][NextSignup]_vars

----------------------------------------------------------------------------
(* Properties of calculateAnnualTax, checked under SpecTax *)

\* the tax of bracket i of the table on income x: rate * max(0, min(x, upper) - lower)
BracketTax(slabs, i, x) ==
    LET lower == IF i = 1 THEN Zero ELSE slabs[i - 1].upto
        top == IF slabs[i].upto = Null THEN x ELSE MathMin(x, slabs[i].upto)
    IN  Mul(slabs[i].rate, MathMax(Zero, Sub(top, lower)))

RECURSIVE SumBrackets(_, _, _)
SumBrackets(slabs, k, x) ==
    IF k = 0 THEN Zero ELSE Add(SumBrackets(slabs, k - 1, x), BracketTax(slabs, k, x))

MarginalTax(x) == SumBrackets(DefaultTaxSlabs, Len(DefaultTaxSlabs), x)

\* C1: with the slab table 0% to 250000, 5% to 500000, 20% to 1000000 and 30%
\* above, calculateAnnualTax returns 0 for 250000, 12500 for 500000, 112500 for
\* 1000000 and 262500 for 1500000.
C1_TaxAtKnownIncomes ==
    /\ Len(TAX_SLABS) = 4
    /\ <<TAX_SLABS[1].upto, TAX_SLABS[1].rate>> = <<Num(250000), Zero>>
    /\ <<TAX_SLABS[2].upto, TAX_SLABS[2].rate>> = <<Num(500000), Rat(1, 20)>>
    /\ <<TAX_SLABS[3].upto, TAX_SLABS[3].rate>> = <<Num(1000000), Rat(1, 5)>>
    /\ <<TAX_SLABS[4].upto, TAX_SLABS[4].rate>> = <<Null, Rat(3, 10)>>
    /\ \A i \in DOMAIN taxLog :
        /\ taxLog[i].annualIncome = Num(250000) => taxLog[i].tax = Num(0)
        /\ taxLog[i].annualIncome = Num(500000) => taxLog[i].tax = Num(12500)
        /\ taxLog[i].annualIncome = Num(1000000) => taxLog[i].tax = Num(112500)
        /\ taxLog[i].annualIncome = Num(1500000) => taxLog[i].tax = Num(262500)

C1_Witness ==
    /\ Len(taxLog) = 2
    /\ taxLog[1].annualIncome = Num(1000000)
    /\ taxLog[2].annualIncome = Num(1500000)
    /\ taxLog[2].tax = Num(262500)

\* C2: for every non-negative income the slab walk returns the sum over the
\* brackets [lower, upper) of rate * max(0, min(income, upper) - lower), the last
\* bracket having no upper bound.
C2_WalkIsMarginalTax ==
    \A i \in DOMAIN taxLog :
        Le(Zero, taxLog[i].annualIncome)
            => taxLog[i].tax = MarginalTax(taxLog[i].annualIncome)

\* one call that stops early inside the second slab, one that reaches the last slab
C2_Witness ==
    /\ Len(taxLog) = 2
    /\ Gt(taxLog[1].annualIncome, Num(250000))
    /\ Lt(taxLog[1].annualIncome, Num(500000))
    /\ Gt(taxLog[1].tax, Zero)
    /\ Gt(taxLog[2].annualIncome, Num(1000000))
    /\ Gt(taxLog[2].tax, Num(112500))

\* the tax of every bracket up to and including bracket k, each taxed in full
RECURSIVE FullBrackets(_)
FullBrackets(k) ==
    IF k = 0 THEN Zero
    ELSE Add(FullBrackets(k - 1),
             Mul(DefaultTaxSlabs[k].rate,
                 Sub(DefaultTaxSlabs[k].upto,
                     IF k = 1 THEN Zero ELSE DefaultTaxSlabs[k - 1].upto)))

\* C3: for incomes 0 <= a <= b the tax of a is at most the tax of b and the
\* difference is at most 0.30 * (b - a) (no jump at a slab boundary); at a slab
\* boundary the tax is the sum of the lower brackets taxed in full.
C3_MonotoneAndContinuous ==
    /\ \A i, j \in DOMAIN taxLog :
        LET a == taxLog[i].annualIncome
            b == taxLog[j].annualIncome
        IN  (Le(Zero, a) /\ Le(a, b)) =>
                /\ Le(taxLog[i].tax, taxLog[j].tax)
                /\ Le(Sub(taxLog[j].tax, taxLog[i].tax), Mul(Rat(30, 100), Sub(b, a)))
    /\ \A i \in DOMAIN taxLog : \A k \in 1..3 :
        taxLog[i].annualIncome = DefaultTaxSlabs[k].upto
            => taxLog[i].tax = FullBrackets(k)

\* a call at the 500000 boundary and a call just above it
C3_Witness ==
    /\ Len(taxLog) = 2
    /\ taxLog[1].annualIncome = Num(500000)
    /\ taxLog[2].annualIncome = Rat(1000001, 2)
    /\ Lt(taxLog[1].tax, taxLog[2].tax)

----------------------------------------------------------------------------
(* Properties of calculateMonthlySalary, checked under SpecSalary *)

ScenarioParams ==
    [basic |-> Num(50000), hra |-> Num(10000), allowances |-> Num(5000),
     workingDaysInMonth |-> Num(22), attendances |-> AttendancesOf(ScenarioHours),
     otherDeductions |-> Num(1000)]

\* a is b to within tol
Approx(a, b, tol) == Le(Sub(a, b), tol) /\ Le(Sub(b, a), tol)

ScenarioFixedPart(b) ==
    /\ b.grossMonthly = Num(65000)
    /\ b.pf = Num(6000)
    /\ b.dailyWage = Rat(65000, 22)
    /\ Mul(b.tax, Num(12)) = Num(68500)
    /\ b.fullDays = 20
    /\ b.halfDays = 2

\* C4 as stated: the scenario yields totalSalary about 61,954.545 and netSalary
\* about 49,246.21.
C4_ScenarioAsStated ==
    \A i \in DOMAIN salLog :
        salLog[i].params = ScenarioParams =>
            /\ ScenarioFixedPart(salLog[i].breakdown)
            /\ Approx(salLog[i].breakdown.totalSalary, Rat(61954545, 1000), Rat(1, 1000))
            /\ Approx(salLog[i].breakdown.netSalary, Rat(4924621, 100), Rat(1, 100))

\* C4 amended: for basic 50000, hra 10000, allowances 5000, 22 working days, 20
\* records of 8 hours or more, 2 records of fewer, other deductions 1000:
\* grossMonthly 65000, pf 6000, dailyWage 65000/22, monthly tax 68500/12,
\* totalSalary 21 * 65000/22 (about 62,045.455) and netSalary 1628125/33 (about
\* 49,337.12).
C4_Scenario ==
    \A i \in DOMAIN salLog :
        salLog[i].params = ScenarioParams =>
            /\ ScenarioFixedPart(salLog[i].breakdown)
            /\ salLog[i].breakdown.totalSalary = Rat(21 * 65000, 22)
            /\ Approx(salLog[i].breakdown.totalSalary, Rat(62045455, 1000), Rat(1, 1000))
            /\ salLog[i].breakdown.netSalary = Rat(1628125, 33)
            /\ Approx(salLog[i].breakdown.netSalary, Rat(4933712, 100), Rat(1, 100))

C4_Witness ==
    /\ Len(salLog) = 1
    /\ salLog[1].params = ScenarioParams
    /\ salLog[1].breakdown.fullDays = 20
    /\ salLog[1].breakdown.halfDays = 2

HoursOf(call) == call.params.attendances

\* C5: a record of 8 hours or more counts as a full day only, a record of more
\* than 0 and fewer than 8 hours as a half day only, a record of 0 hours as
\* neither.
C5_ClassifiedByHours ==
    \A i \in DOMAIN salLog :
        LET a == HoursOf(salLog[i]) IN
        /\ salLog[i].breakdown.fullDays =
              Cardinality({k \in DOMAIN a : Ge(a[k].hoursWorked, Num(8))})
        /\ salLog[i].breakdown.halfDays =
              Cardinality({k \in DOMAIN a : /\ Gt(a[k].hoursWorked, Zero)
                                            /\ Lt(a[k].hoursWorked, Num(8))})

\* one record of exactly 8 hours, one of 7.999 hours and one of 0 hours
C5_Witness ==
    /\ Len(salLog) = 1
    /\ Len(HoursOf(salLog[1])) = 3
    /\ HoursOf(salLog[1])[1].hoursWorked = Num(8)
    /\ HoursOf(salLog[1])[2].hoursWorked = Rat(7999, 1000)
    /\ HoursOf(salLog[1])[3].hoursWorked = Zero
    /\ salLog[1].breakdown.fullDays = 1
    /\ salLog[1].breakdown.halfDays = 1

\* C6: fullDays + halfDays is at most the number of records with hoursWorked > 0.
C6_DaysAtMostPositiveRecords ==
    \A i \in DOMAIN salLog :
        LET a == HoursOf(salLog[i]) IN
        salLog[i].breakdown.fullDays + salLog[i].breakdown.halfDays
            <= Cardinality({k \in DOMAIN a : Gt(a[k].hoursWorked, Zero)})

\* a list with a zero-hour record next to records that count
C6_Witness ==
    /\ Len(salLog) = 1
    /\ \E k \in DOMAIN HoursOf(salLog[1]) : HoursOf(salLog[1])[k].hoursWorked = Zero
    /\ salLog[1].breakdown.fullDays + salLog[1].breakdown.halfDays = 2

\* C7: netSalary = totalSalary - tax - pf - otherDeductions, and it is negative
\* whenever tax + pf + otherDeductions exceeds totalSalary.
C7_NetSalaryNotFloored ==
    \A i \in DOMAIN salLog :
        LET b == salLog[i].breakdown
            deductions == Add(Add(b.tax, b.pf), b.otherDeductions)
        IN  /\ b.netSalary =
                   Sub(Sub(Sub(b.totalSalary, b.tax), b.pf), b.otherDeductions)
            /\ Gt(deductions, b.totalSalary) => Lt(b.netSalary, Zero)

C7_Witness ==
    /\ Len(salLog) = 1
    /\ Gt(salLog[1].breakdown.totalSalary, Zero)
    /\ Gt(salLog[1].breakdown.tax, Zero)
    /\ Lt(salLog[1].breakdown.netSalary, Zero)

----------------------------------------------------------------------------
(* Properties of repeated calls, checked under SpecSalaryCalls *)

GrossOf(call) ==
    Add(Add(call.params.basic, call.params.hra), call.params.allowances)

\* C8: two calls with the same basic + hra + allowances return the same tax,
\* whatever their attendances, workingDaysInMonth and otherDeductions; it is the
\* annual tax of 12 * grossMonthly, divided by 12.
C8_TaxDependsOnGrossOnly ==
    /\ \A i, j \in DOMAIN salLog :
        GrossOf(salLog[i]) = GrossOf(salLog[j])
            => salLog[i].breakdown.tax = salLog[j].breakdown.tax
    /\ \A i \in DOMAIN salLog :
        Mul(salLog[i].breakdown.tax, Num(12))
            = MarginalTax(Mul(GrossOf(salLog[i]), Num(12)))

\* same gross, taxed, with different attendance, working days and deductions
C8_Witness ==
    /\ Len(salLog) = 2
    /\ GrossOf(salLog[1]) = GrossOf(salLog[2])
    /\ salLog[1].params.basic # salLog[2].params.basic
    /\ salLog[1].params.attendances # salLog[2].params.attendances
    /\ salLog[1].params.workingDaysInMonth # salLog[2].params.workingDaysInMonth
    /\ salLog[1].params.otherDeductions # salLog[2].params.otherDeductions
    /\ salLog[1].breakdown.totalSalary # salLog[2].breakdown.totalSalary
    /\ Gt(salLog[1].breakdown.tax, Zero)

\* C10: calls with identical arguments return identical breakdowns, whatever
\* calls are made between them, and no call changes the tax slab table.
C10_PureFunction ==
    /\ TAX_SLABS = DefaultTaxSlabs
    /\ \A i, j \in DOMAIN salLog :
        salLog[i].params = salLog[j].params
            => salLog[i].breakdown = salLog[j].breakdown

\* the same params called first and third, with another call between them
C10_Witness ==
    /\ Len(salLog) = 3
    /\ salLog[1].params = salLog[3].params
    /\ salLog[2].params # salLog[1].params
    /\ salLog[2].breakdown # salLog[1].breakdown

----------------------------------------------------------------------------
(* Properties of the service, checked under Spec *)

SalaryCalculated ==
    /\ response # NoResponse
    /\ response.message = "Salary calculated successfully"

\* C9: a salary calculated from the stored attendance of an employee and month
\* has totalSalary = fullDays * dailyWage + halfDays * dailyWage / 2, which
\* equals grossSalary when every working day is attended as a full day, is less
\* than grossSalary otherwise, and never exceeds grossSalary.
C9_TotalWithinGross ==
    SalaryCalculated =>
        LET s == response.data
            workingDays == employeeTable[s.employeeId].workingDays
            allFull == Num(s.fullDays) = workingDays /\ s.halfDays = 0
        IN  /\ s.totalSalary =
                   Add(Mul(Num(s.fullDays), s.dailyWage),
                       Mul(Num(s.halfDays), Div(s.dailyWage, Num(2))))
            /\ Le(s.totalSalary, s.grossSalary)
            /\ allFull => s.totalSalary = s.grossSalary
            /\ ~allFull => Lt(s.totalSalary, s.grossSalary)

\* the stored attendance records of the employee dated in the calendar month
AttendancesInMonth(employeeId, month, year) ==
    {a \in attendanceTable :
        a.employeeId = employeeId /\ a.date.y = year /\ a.date.m = month}

\* C29: a salary calculated for (employeeId, month, year) counts exactly the
\* stored attendance records of the employee dated in that calendar month, a
\* record of the last day at any time of day included: fullDays is the number
\* of them with hoursWorked >= 8 and halfDays the number with 0 < hoursWorked
\* < 8.
C29_CountsCalendarMonth ==
    SalaryCalculated =>
        LET s == response.data
            inMonth == AttendancesInMonth(s.employeeId, s.month, s.year)
        IN  /\ s.fullDays =
                   Cardinality({a \in inMonth : Ge(a.hoursWorked, Num(8))})
            /\ s.halfDays =
                   Cardinality({a \in inMonth : /\ Lt(a.hoursWorked, Num(8))
                                                /\ Gt(a.hoursWorked, Zero)})

\* the values markAttendanceSchema allows for status
StatusValues == {"PRESENT", "ABSENT", "HALF_DAY", "LEAVE"}

\* the attendance records with the status of every one replaced
Restatused(table, status) == {[a EXCEPT !.status = status] : a \in table}

\* C30: a calculated salary depends on the hoursWorked of the attendance
\* records and never on their status: the stored records with every status
\* replaced by any other give the same fullDays, halfDays, totalSalary and
\* netSalary, and the mark and update schema accepts every combination of a
\* status and an hoursWorked from 0 to 24.
C30_StatusIgnored ==
    /\ SalaryCalculated =>
           \A status \in StatusValues :
               LET s == response.data
                   again == calculateEmployeeSalary(
                                TAX_SLABS, employeeTable,
                                Restatused(attendanceTable, status),
                                s.employeeId, s.month, s.year, s.otherDeductions)
               IN  /\ again.ok
                   /\ again.value.fullDays = s.fullDays
                   /\ again.value.halfDays = s.halfDays
                   /\ again.value.totalSalary = s.totalSalary
                   /\ again.value.netSalary = s.netSalary
    /\ \A status \in StatusValues, hoursWorked \in {Zero, Num(4), Num(8), Num(24)} :
           ValidateAttendanceBody([employeeId |-> 1, date |-> Date(2024, 1, 1, 0),
                                   hoursWorked |-> hoursWorked,
                                   status |-> status]).ok

\* a record of 8 hours stored with status ABSENT was paid as a full day
C30_Witness ==
    /\ SalaryCalculated
    /\ response.data.fullDays = 1
    /\ response.data.halfDays = 0
    /\ Cardinality(attendanceTable) = 1
    /\ \A a \in attendanceTable :
           a.status = "ABSENT" /\ a.hoursWorked = Num(8) /\ a.date = Date(2024, 1, 1, 0)

----------------------------------------------------------------------------
(* calculateMonthlySalary on unvalidated params, checked under SpecSalaryAnyInput *)

BreakdownFields ==
    {"grossMonthly", "fullDays", "halfDays", "dailyWage", "totalSalary", "tax", "pf",
     "otherDeductions", "netSalary"}

\* C11: calculateMonthlySalary validates nothing and raises nothing: every call,
\* also with workingDaysInMonth = 0, negative pay components or negative
\* otherDeductions, returns a breakdown; the division by workingDaysInMonth is
\* carried out, so with 0 working days dailyWage is Infinity, -Infinity or NaN,
\* and the negative figures pass through into the breakdown.
C11_NoValidation ==
    \A i \in DOMAIN salLog :
        LET p == salLog[i].params
            b == salLog[i].breakdown
            gross == Add(Add(p.basic, p.hra), p.allowances)
        IN  /\ DOMAIN b = BreakdownFields
            /\ b.grossMonthly = gross
            /\ b.pf = Mul(p.basic, Rat(12, 100))
            /\ b.dailyWage = Div(gross, p.workingDaysInMonth)
            /\ p.workingDaysInMonth = Zero =>
                    b.dailyWage = [n |-> Sign(gross.n), d |-> 0]
            /\ b.otherDeductions = OrDefault(p.otherDeductions, Zero)

C11_Witness ==
    \E i \in DOMAIN salLog :
        LET p == salLog[i].params
            b == salLog[i].breakdown
        IN  /\ p.workingDaysInMonth = Zero
            /\ Lt(p.basic, Zero)
            /\ p.otherDeductions = Num(-1000)
            /\ Len(p.attendances) = 2
            /\ b.dailyWage = NegInfinity
            /\ b.otherDeductions = Num(-1000)
            /\ b.netSalary = NegInfinity

----------------------------------------------------------------------------
(* Properties of the employee routes, checked under Spec *)

\* C12: after any sequence of POST /api/employees and PUT /api/employees/:id
\* requests every stored employee has workingDays an integer in 1..31, so a
\* salary calculated for a stored employee divides by a positive number of
\* working days and its dailyWage is finite.
C12_WorkingDaysInRange ==
    /\ \A i \in DOMAIN employeeTable :
            LET workingDays == employeeTable[i].workingDays
            IN  workingDays.d = 1 /\ workingDays.n \in 1..31
    /\ SalaryCalculated =>
            /\ IsFinite(response.data.dailyWage)
            /\ Gt(response.data.dailyWage, Zero)

C12_Witness ==
    /\ response # NoResponse
    /\ response.message = "Employee updated successfully"
    /\ response.data.workingDays = Num(1)
    /\ response.data.basicSalary = Num(20000)
    /\ response.data.email = "b@hr.test"

----------------------------------------------------------------------------
(* Concurrent generate requests, checked under SpecGenerateRace *)

PayrollKey(p) == <<p.employeeId, p.month, p.year>>

Generated(r) ==
    /\ requests[r].pc = "respond"
    /\ requests[r].response.status = 201

\* C13: under any interleaving of concurrent generate requests there is at
\* most one payroll record per (employeeId, month, year), and of the requests
\* that are answered at the same time no two have created a record of the same
\* key: the one that loses the race is answered with an error.
C13_OnePayrollPerKey ==
    /\ \A p, q \in payrollTable : PayrollKey(p) = PayrollKey(q) => p = q
    /\ \A r1, r2 \in 1..MaxRequests :
           (r1 # r2 /\ Generated(r1) /\ Generated(r2)) =>
               PayrollKey(requests[r1].response.data) #
                   PayrollKey(requests[r2].response.data)
    /\ \A r \in 1..MaxRequests :
           (requests[r].pc = "respond" /\ requests[r].response.status # 201) =>
               requests[r].response.status \in {400, 401, 403}

\* both requests passed the existence check of month 1: one created the
\* record and the other was refused by the index
C13_Witness ==
    /\ Generated(1)
    /\ requests[1].response.data.month = 1
    /\ requests[2].pc = "respond"
    /\ requests[2].response.message = UniqueConstraintFailed
    /\ Cardinality(payrollTable) = 1

----------------------------------------------------------------------------
(* Properties of the payroll records, checked under SpecPayroll *)

HrRoles == {"ADMIN", "MANAGER"}

IsHr(user) == user # NoUser /\ user.roles \in HrRoles

HasPayroll(employeeId, month, year) ==
    \E p \in payrollTable : p.employeeId = employeeId /\ p.month = month /\ p.year = year

AlreadyExists == Reply(400, "Payroll already exists for this month and year", Null)

\* C14: a generate request of an HR user for an (employeeId, month, year) that
\* already has a payroll record is answered 400 'Payroll already exists for
\* this month and year' and changes no stored record, whatever has happened
\* to the employee's pay and attendance since the record was generated.
C14_GenerateTwiceRefused ==
    [][\A user \in UserSamples, employeeId \in EmployeeIdSamples,
         body \in PayrollGenerateBodies :
           (/\ GenerateSalary(user, employeeId, body)
            /\ IsHr(user)
            /\ HasPayroll(employeeId, body.month, body.year))
           => (response' = AlreadyExists /\ UNCHANGED <<dbVars, payrollVars>>)]_vars

\* the record of January was generated from a gross of 65000 and no
\* attendance; the pay was changed and two days were marked since
C14_Witness ==
    /\ response = AlreadyExists
    /\ \E p \in payrollTable :
           /\ p.month = 1
           /\ p.grossSalary = Num(65000)
           /\ p.fulldays = 0 /\ p.halfdays = 0
    /\ employeeTable[1].basicSalary = Num(20000)
    /\ Cardinality(attendanceTable) = 2

NotFound == Reply(400, "Employee not found", Null)

NotActive == Reply(400, "Employee is not active", Null)

\* C15: when no employee has the id, calculateEmployeeSalary fails with
\* 'Employee not found', and when the employee is not active, with 'Employee
\* is not active'; a calculate request, and a generate request that reaches
\* the calculation, is then answered 400 with that message, and no payroll
\* record is created.
C15_LookupFailures ==
    [][/\ \A user \in UserSamples, body \in PayrollCalculateBodies :
            (CalculateSalary(user, body) /\ IsHr(user)) =>
                /\ body.employeeId \notin DOMAIN employeeTable =>
                       response' = NotFound /\ UNCHANGED payrollVars
                /\ (/\ body.employeeId \in DOMAIN employeeTable
                    /\ ~employeeTable[body.employeeId].isActive) =>
                       response' = NotActive /\ UNCHANGED payrollVars
       /\ \A user \in UserSamples, employeeId \in EmployeeIdSamples,
            body \in PayrollGenerateBodies :
            (/\ GenerateSalary(user, employeeId, body)
             /\ IsHr(user)
             /\ body.month # 0
             /\ ~HasPayroll(employeeId, body.month, body.year)) =>
                /\ employeeId \notin DOMAIN employeeTable =>
                       response' = NotFound /\ UNCHANGED payrollVars
                /\ (/\ employeeId \in DOMAIN employeeTable
                    /\ ~employeeTable[employeeId].isActive) =>
                       response' = NotActive /\ UNCHANGED payrollVars]_vars

\* a request for the deactivated employee was refused and nothing was generated
C15_Witness ==
    /\ response = NotActive
    /\ Len(employeeTable) = 1
    /\ ~employeeTable[1].isActive
    /\ Cardinality(attendanceTable) = 1
    /\ payrollTable = {}

\* what a payroll record's netSalary and deductions add up to
ImpliedTotalSalary(p) ==
    Add(Add(Add(p.netSalary, p.taxDeductions), p.pfDeductions), p.otherDeductions)

\* fullDays * dailyWage + halfDays * dailyWage / 2, from the employee's row
AttendanceWeightedPay(p, employee) ==
    LET dailyWage == Div(p.grossSalary, employee.workingDays)
    IN  Add(Mul(Num(p.fulldays), dailyWage), Mul(Num(p.halfdays), Div(dailyWage, Num(2))))

\* C20: every stored payroll record satisfies netSalary = Total Salary -
\* taxDeductions - pfDeductions - otherDeductions, Total Salary being the
\* attendance-weighted pay computed when the record was generated: a record
\* is created with it, and no later request changes what the record's
\* netSalary and deductions add up to.
C20_NetSalaryFromTotalSalary ==
    [][\A q \in payrollTable' :
          IF \E p \in payrollTable : p.id = q.id
          THEN LET p == CHOOSE p \in payrollTable : p.id = q.id
               IN  ImpliedTotalSalary(q) = ImpliedTotalSalary(p)
          ELSE ImpliedTotalSalary(q) =
                   AttendanceWeightedPay(q, employeeTable[q.employeeId])]_vars

\* C21: POST /api/salary/calculate is read-only: whether the request succeeds
\* or fails, the employee, attendance and payroll records are the same before
\* and after it; a payroll record is created by the generate route only.
C21_CalculateReadOnly ==
    [][/\ \A user \in UserSamples, body \in PayrollCalculateBodies :
            CalculateSalary(user, body) => UNCHANGED <<dbVars, payrollVars>>
       /\ (\E q \in payrollTable' : \A p \in payrollTable : p.id # q.id) =>
              \E user \in UserSamples, employeeId \in EmployeeIdSamples,
                 body \in PayrollGenerateBodies : GenerateSalary(user, employeeId, body)
      ]_vars

\* a salary was calculated from a day of attendance, and no payroll is stored
C21_Witness ==
    /\ response # NoResponse
    /\ response.message = "Salary calculated successfully"
    /\ response.data.fullDays = 1
    /\ payrollTable = {}

\* C22: DELETE /api/employees/:id of an HR user is a soft delete: for an
\* existing employee it sets isActive to false and changes nothing else, so
\* the employee's row, the attendance records and the payroll records are all
\* still stored; for an unknown id it answers 404 and changes nothing.
C22_SoftDelete ==
    [][\A user \in UserSamples, employeeId \in EmployeeIdSamples :
          (DeleteEmployee(user, employeeId) /\ IsHr(user)) =>
              IF employeeId \in DOMAIN employeeTable
              THEN /\ response'.status = 200
                   /\ employeeTable' =
                          [employeeTable EXCEPT ![employeeId].isActive = FALSE]
                   /\ UNCHANGED <<attendanceTable, nextAttendanceId, payrollVars>>
              ELSE /\ response'.status = 404
                   /\ UNCHANGED <<dbVars, payrollVars>>]_vars

\* the employee was deactivated; the attendance and the payroll are stored
C22_Witness ==
    /\ response # NoResponse
    /\ response.message = "Employee deactivated successfully"
    /\ ~employeeTable[1].isActive
    /\ Cardinality(attendanceTable) = 2
    /\ payrollTable # {}

\* the employee is stored and its isActive is false
Deactivated(employeeId) ==
    employeeId \in DOMAIN employeeTable /\ ~employeeTable[employeeId].isActive

\* a mark, calculate or generate request of an HR user for the employee
WorkRequestFor(employeeId) ==
    \E user \in UserSamples :
        /\ IsHr(user)
        /\ \/ \E body \in PayrollAttendanceBodies :
                 body.employeeId = employeeId /\ MarkAttendance(user, body)
           \/ \E body \in PayrollCalculateBodies :
                 body.employeeId = employeeId /\ CalculateSalary(user, body)
           \/ \E body \in PayrollGenerateBodies : GenerateSalary(user, employeeId, body)

\* a distribute request of an HR user for the employee and the month
DistributeRequestFor(employeeId, month) ==
    \E user \in UserSamples, body \in PayrollDistributeBodies :
        /\ IsHr(user)
        /\ body.employeeId = employeeId /\ body.month = month
        /\ DistributePayroll(user, body)

\* C23, as stated: while an employee is deactivated every mark, calculate,
\* generate and distribute request for it is answered 400 and changes no
\* stored record.
C23_RejectedWith400 ==
    [][\A employeeId \in EmployeeIdSamples :
          (/\ Deactivated(employeeId)
           /\ \/ WorkRequestFor(employeeId)
              \/ \E month \in 1..12 : DistributeRequestFor(employeeId, month))
          => (response'.status = 400 /\ UNCHANGED <<dbVars, payrollVars>>)]_vars

\* C23: while an employee is deactivated (isActive false, until a PUT sets it
\* back to true) every mark, calculate and generate request of an HR user for
\* it is answered 400, and every distribute request 400 when the month has a
\* payroll record and 404 when it has none; none of them changes a stored
\* record: no attendance or payroll record is created and no paymentDate is
\* changed.
C23_RejectedWhileDeactivated ==
    [][\A employeeId \in EmployeeIdSamples :
          Deactivated(employeeId) =>
              /\ WorkRequestFor(employeeId) =>
                     (response'.status = 400 /\ UNCHANGED <<dbVars, payrollVars>>)
              /\ \A month \in 1..12 :
                     DistributeRequestFor(employeeId, month) =>
                         /\ response'.status =
                                IF HasPayroll(employeeId, month, 2024) THEN 400 ELSE 404
                         /\ UNCHANGED <<dbVars, payrollVars>>]_vars

\* the payroll of January was generated, the employee was deactivated, and
\* the distribution of January was refused: the payment date is unchanged
C23_Witness ==
    /\ response = Reply(400, "Cannot distribute payroll to inactive employee", Null)
    /\ Deactivated(1)
    /\ \E p \in payrollTable : p.month = 1 /\ p.paymentDate = Now

\* C28: after any sequence of generate and update-payroll requests every
\* stored payroll record has deductions = taxDeductions + pfDeductions +
\* otherDeductions.
C28_DeductionsAddUp ==
    \A p \in payrollTable :
        p.deductions = Add(Add(p.taxDeductions, p.pfDeductions), p.otherDeductions)

----------------------------------------------------------------------------
(* Who may do what, checked under SpecAccess *)

StoredUnchanged == UNCHANGED <<dbVars, payrollVars>>

\* C16: a request to a route that is documented as HR/Admin only runs the
\* handler, and can change stored state, only for a user whose role is ADMIN
\* or MANAGER: from an EMPLOYEE it is rejected with 403, and with no
\* authenticated user with 401, carrying no data and leaving stored state
\* unchanged.
C16_HrOnlyRoutes ==
    [][\A user \in UserSamples :
          (HrOnlyRequest(user) /\ ~IsHr(user)) =>
              /\ response'.status = (IF user = NoUser THEN 401 ELSE 403)
              /\ response'.data = Null
              /\ StoredUnchanged]_vars

\* an EMPLOYEE was refused while there were an employee, an attendance record
\* and a payroll record to read or change
C16_Witness ==
    /\ response = Reply(403, "Insufficient permissions.", Null)
    /\ Len(employeeTable) = 1
    /\ attendanceTable # {}
    /\ payrollTable # {}

\* C17: on the routes guarded by canAccessEmployee and canAccessSalary an
\* EMPLOYEE passes only for the id of the employee record linked to the user;
\* for any other id, and with no linked record, the request is rejected with
\* 403 and carries no data; ADMIN and MANAGER pass for every id.
C17_OwnRecordOnly ==
    [][\A user \in UserSamples \ {NoUser}, employeeId \in EmployeeIdSamples :
          OwnRecordRequest(user, employeeId) =>
              IF IsHr(user) \/ IsOwnEmployee(user, employeeId)
              THEN response'.status \notin {401, 403}
              ELSE response'.status = 403 /\ response'.data = Null]_vars

\* the salary history of employee 1 was refused to a user who is not linked to it
C17_Witness ==
    /\ response =
           Reply(403, "Access denied. You can only access your own salary data.", Null)
    /\ payrollTable # {}

\* C18: marking and viewing attendance is allowed to an EMPLOYEE acting on
\* the employee record linked to the user, and rejected with 403 when the
\* request names another employee; ADMIN and MANAGER may act on any employee.
C18_OwnAttendance ==
    [][\A user \in UserSamples \ {NoUser}, employeeId \in EmployeeIdSamples :
          AttendanceRequest(user, employeeId) =>
              /\ IsHr(user) => response'.status # 403
              /\ (/\ user.roles = "EMPLOYEE"
                  /\ IsOwnEmployee(user, employeeId)
                  /\ employeeId \in DOMAIN employeeTable) => response'.status # 403
              /\ (/\ user.roles = "EMPLOYEE"
                  /\ ~IsOwnEmployee(user, employeeId)) => response'.status = 403]_vars

AttendanceKey(a) == <<a.employeeId, a.date>>

\* C19: under any interleaving of concurrent POST /api/attendance/mark
\* requests at most one attendance record exists per (employeeId, date)
C19_OneAttendancePerDate ==
    \A a, b \in attendanceTable : AttendanceKey(a) = AttendanceKey(b) => a = b

----------------------------------------------------------------------------
(* The users that signup creates, checked under SpecSignup *)

\* C24: after any sequence of signup requests every user created by signup
\* has the EMPLOYEE role: none has role ADMIN or MANAGER.
C24_SignupCreatesEmployees ==
    \A i \in DOMAIN userTable : userTable[i].roles = "EMPLOYEE"

----------------------------------------------------------------------------
(* Other deductions of either sign, checked under SpecDeductions *)

\* C25: after any sequence of calculate, generate and update-payroll requests
\* every salary calculation that was answered and every stored payroll record
\* has otherDeductions >= 0.
C25_OtherDeductionsValidated ==
    /\ \A p \in payrollTable : Ge(p.otherDeductions, Zero)
    /\ (/\ response # NoResponse
        /\ response.message \in {"Salary calculated successfully",
                                 "Salary generated and saved successfully",
                                 "Payroll record updated successfully"})
       => Ge(response.data.otherDeductions, Zero)

----------------------------------------------------------------------------
(* The distribution of a payroll, checked under SpecDistribute *)

Distributed(p, paymentDate) == [p EXCEPT !.paymentDate = paymentDate]

\* C26: a distribute request of an HR user succeeds only when the
\* (employeeId, month, year) has a payroll record and the employee is active;
\* it then changes the paymentDate of that record and nothing else: the
\* record's other fields and every other record are as before. With no such
\* payroll record it answers 404, and whenever it does not succeed it changes
\* nothing.
C26_DistributeSetsPaymentDate ==
    [][\A user \in UserSamples, body \in DistributePayrollBodies :
          (DistributePayroll(user, body) /\ IsHr(user)) =>
              LET found == FindPayroll(payrollTable, body.employeeId,
                                       body.month, body.year)
              IN  /\ response'.status = 200 =>
                         /\ found # {}
                         /\ employeeTable[body.employeeId].isActive
                         /\ payrollTable' =
                                (payrollTable \ found) \cup
                                    {Distributed(p, body.paymentDate) : p \in found}
                         /\ UNCHANGED <<dbVars, nextPayrollId>>
                  /\ response'.status # 200 => UNCHANGED <<dbVars, payrollVars>>
                  /\ (found = {} /\ ValidateDistributeBody(body).ok) =>
                         response'.status = 404]_vars

\* January's payroll was distributed; February's keeps the date it was
\* generated on
C26_Witness ==
    /\ response # NoResponse
    /\ response.message = "Payroll distributed successfully"
    /\ \E p, q \in payrollTable :
           /\ p.month = 1 /\ p.paymentDate = Date(2024, 3, 5, 0) /\ p.fulldays = 1
           /\ q.month = 2 /\ q.paymentDate = Now

----------------------------------------------------------------------------
(* The attendance records of a day, checked under SpecAttendance *)

\* another record than attendanceId holds the employee and date of the body
HeldByAnother(attendanceId, body) ==
    \E a \in attendanceTable :
        a.id # attendanceId /\ a.employeeId = body.employeeId /\ a.date = body.date

\* C27: after any sequence of mark, update and delete attendance requests
\* handled one at a time, no two attendance records have the same employee
\* and date: an update that would move a record onto an employee and date
\* held by a different record is rejected and changes nothing.
C27_UpdateKeepsOnePerDate ==
    [][/\ \A a, b \in attendanceTable' :
              (a.employeeId = b.employeeId /\ a.date = b.date) => a = b
       /\ \A user \in UserSamples, attendanceId \in AttendanceIdSamples,
             body \in RaceAttendanceBodies :
              (/\ UpdateAttendance(user, attendanceId, body)
               /\ HeldByAnother(attendanceId, body))
              => (response'.status # 200 /\ UNCHANGED dbVars)]_vars

====
